---------------------------- MODULE Spec2Model ----------------------------
(***************************************************************************)
(* A model of book_tools/format/fb2sax.py: the tag-path matcher            *)
(* (TagHandler), the cover matcher (CoverHandler), the streaming parser    *)
(* target (FB2Parser) and its parse driver.                                *)
(*                                                                         *)
(* Text (character data, attribute values, collected values) is a sequence *)
(* of one-character strings, so that strip(), lower() and concatenation    *)
(* are computed.  A raw tag or attribute name is a sequence of tokens      *)
(* ("{", "}", ":" and name parts), so that normalize_tag_name is computed. *)
(***************************************************************************)
EXTENDS Integers, Sequences, FiniteSets, TLC

VARIABLES
    read_cover,              \* FB2Parser.read_cover
    tag_handlers,            \* FB2Parser.tag_handlers: name -> handler object
    processing_description,  \* FB2Parser.processing_description
    parse_error,             \* FB2Parser.parse_error
    parse_error_msg,         \* FB2Parser.parse_error_msg
    in_body,                 \* FB2Parser.in_body
    body_chunks,             \* FB2Parser.body_chunks
    pc,                      \* position of the parse driver
    nevents,                 \* number of tokenizer events / calls made so far
    nparses,                 \* number of parse() calls started so far
    stack,                   \* the tokenizer's stack of open element names
    unit,                    \* the handler driven directly (unit runs), or "none"
    ret,                     \* return value of the last direct open_tag call
    doc,                     \* history: the events the first parse was fed (repeated parses)
    first_run,               \* history: what the first parse left behind (repeated parses)
    at_author_open,          \* history: lengths of the two name lists at the last author start-tag
    target_set,              \* history: set_cover_name stored a non-empty name
    fed_payload,             \* history: the chunks add_data was given while inside
    fed_value,               \* history: the chunks set_value was given on the last segment since the last flush
    sax,                     \* the FB2Sax object built on the parser, or its absence
    glue,                    \* BookProcessor.scan_archive: the archive and the loop over its entries
    threads                  \* the threads that call extract_cover_memory on the FB2Sax object

vars == <<read_cover, tag_handlers, processing_description, parse_error,
          parse_error_msg, in_body, body_chunks, pc, nevents, nparses,
          stack, unit, ret, doc, first_run, at_author_open, target_set,
          fed_payload, fed_value, sax, glue, threads>>

hist == <<doc, first_run, sax, glue, threads>>

\* No FB2Sax object has been constructed
NoSax == [state |-> "none"]

\* No archive is being scanned
NoGlue == [state |-> "none"]

\* No thread is at work on the FB2Sax object
NoThreads == <<>>

engine == <<tag_handlers, processing_description, parse_error,
            parse_error_msg, in_body, body_chunks>>

-----------------------------------------------------------------------------
(* Bounds of the model *)

MaxEvents == 4

MaxParses == 2

MaxCalls == 5

-----------------------------------------------------------------------------
(* Text *)

None == <<"<None>">>

EmptyDict == [k \in {} |-> <<>>]

\* open_tag called without attrs (attrs = None)
NoAttrs == [none |-> <<>>]

Whitespace == {" ", "\n", "\t"}

RECURSIVE lstrip(_, _)
lstrip(s, chars) ==
    IF s # <<>> /\ Head(s) \in chars THEN lstrip(Tail(s), chars) ELSE s

RECURSIVE rstrip(_, _)
rstrip(s, chars) ==
    IF s # <<>> /\ s[Len(s)] \in chars
    THEN rstrip(SubSeq(s, 1, Len(s) - 1), chars)
    ELSE s

strip(s, chars) == rstrip(lstrip(s, chars), chars)

lower_char(c) ==
    CASE c = "C" -> "c"
      [] c = "D" -> "d"
      [] c = "X" -> "x"
      [] c = "Y" -> "y"
      [] OTHER -> c

lower(s) == [i \in 1..Len(s) |-> lower_char(s[i])]

RECURSIVE join(_)
join(chunks) ==
    IF chunks = <<>> THEN <<>> ELSE Head(chunks) \o join(Tail(chunks))

-----------------------------------------------------------------------------
(* Names *)

DESCRIPTION_TAG == "description"

BODY_TAG == "body"

AUTHOR_TAG == "author"

lower_token(t) ==
    CASE t = "BODY" -> "body"
      [] t = "Binary" -> "binary"
      [] t = "HREF" -> "href"
      [] OTHER -> t

RECURSIVE join_tokens(_)
join_tokens(ts) ==
    IF ts = <<>> THEN "" ELSE lower_token(Head(ts)) \o join_tokens(Tail(ts))

RECURSIVE after_last_brace(_)
after_last_brace(ts) ==
    IF \E i \in 1..Len(ts) : ts[i] = "}"
    THEN after_last_brace(Tail(ts))
    ELSE ts

normalize_tag_name(tag) ==
    IF \E i \in 1..Len(tag) : tag[i] = "}"
    THEN join_tokens(lstrip(after_last_brace(tag), {":"}))
    ELSE join_tokens(tag)

RECURSIVE normalize_attrs(_)
normalize_attrs(attrs) ==
    IF attrs = <<>> THEN EmptyDict
    ELSE LET n    == Len(attrs)
             rest == normalize_attrs(SubSeq(attrs, 1, n - 1))
             key  == normalize_tag_name(attrs[n][1])
         IN  [k \in DOMAIN rest \cup {key} |->
                  IF k = key THEN attrs[n][2] ELSE rest[k]]

-----------------------------------------------------------------------------
(* TagHandler *)

TagHandler_init ==
    [ current_index      |-> -1,
      values             |-> <<>>,
      attributes_list    |-> <<>>,
      current_attributes |-> EmptyDict,
      processing_value   |-> FALSE,
      current_value      |-> <<>> ]

TagHandler_reset(self) ==
    [self EXCEPT !.current_index = -1,
                 !.values = <<>>,
                 !.attributes_list = <<>>,
                 !.current_attributes = EmptyDict,
                 !.processing_value = FALSE,
                 !.current_value = <<>>]

\* As open_tag, but a match is reported and recorded only when the cursor
\* has just advanced onto the last segment
TagHandler_open_tag_on_advance(self, tags, tag, attrs0) ==
    LET attrs == IF attrs0 = NoAttrs THEN EmptyDict ELSE attrs0
        path_size == Len(tags)
        advance == self.current_index + 1 < path_size
                      /\ tags[self.current_index + 2] = tag
        idx == IF advance THEN self.current_index + 1 ELSE self.current_index
    IN  IF advance /\ idx + 1 = path_size
        THEN [self |-> [self EXCEPT !.current_index = idx,
                                    !.current_attributes = attrs,
                                    !.attributes_list = Append(@, attrs)],
              matched |-> TRUE]
        ELSE [self |-> [self EXCEPT !.current_index = idx],
              matched |-> FALSE]

\* open_tag: the handler after the call and the value returned
TagHandler_open_tag(self, tags, tag, attrs0) ==
    LET attrs == IF attrs0 = NoAttrs THEN EmptyDict ELSE attrs0
        path_size == Len(tags)
        idx == IF self.current_index + 1 < path_size
                  /\ tags[self.current_index + 2] = tag
               THEN self.current_index + 1
               ELSE self.current_index
    IN  IF idx + 1 = path_size
        THEN [self |-> [self EXCEPT !.current_index = idx,
                                    !.current_attributes = attrs,
                                    !.attributes_list = Append(@, attrs)],
              matched |-> TRUE]
        ELSE [self |-> [self EXCEPT !.current_index = idx],
              matched |-> FALSE]

\* As close_tag, but the closed tag's name is not compared with the path
TagHandler_close_tag_any(self, tags, tag) ==
    IF self.current_index >= 0
    THEN IF self.processing_value
         THEN [self EXCEPT !.current_index = @ - 1,
                           !.values = Append(@, strip(self.current_value, Whitespace)),
                           !.processing_value = FALSE,
                           !.current_value = <<>>]
         ELSE [self EXCEPT !.current_index = @ - 1]
    ELSE self

\* As close_tag, but the cursor retreats only from the last path segment
TagHandler_close_tag_from_last(self, tags, tag) ==
    IF self.current_index + 1 = Len(tags) /\ tags[self.current_index + 1] = tag
    THEN IF self.processing_value
         THEN [self EXCEPT !.current_index = @ - 1,
                           !.values = Append(@, strip(self.current_value, Whitespace)),
                           !.processing_value = FALSE,
                           !.current_value = <<>>]
         ELSE [self EXCEPT !.current_index = @ - 1]
    ELSE self

\* As close_tag, but without the test that the cursor is not negative: at -1
\* the tag is compared with the last path segment, as tags[-1] reads it
TagHandler_close_tag_wraps(self, tags, tag) ==
    IF tags[IF self.current_index = -1 THEN Len(tags) ELSE self.current_index + 1] = tag
    THEN IF self.processing_value
         THEN [self EXCEPT !.current_index = @ - 1,
                           !.values = Append(@, strip(self.current_value, Whitespace)),
                           !.processing_value = FALSE,
                           !.current_value = <<>>]
         ELSE [self EXCEPT !.current_index = @ - 1]
    ELSE self

\* close_tag: the handler after the call
TagHandler_close_tag(self, tags, tag) ==
    IF self.current_index >= 0 /\ tags[self.current_index + 1] = tag
    THEN IF self.processing_value
         THEN [self EXCEPT !.current_index = @ - 1,
                           !.values = Append(@, strip(self.current_value, Whitespace)),
                           !.processing_value = FALSE,
                           !.current_value = <<>>]
         ELSE [self EXCEPT !.current_index = @ - 1]
    ELSE self

\* As set_value, but every chunk starts the buffer anew
TagHandler_set_value_restart(self, tags, data) ==
    IF self.current_index + 1 = Len(tags)
    THEN [self EXCEPT !.current_value = data, !.processing_value = TRUE]
    ELSE self

\* As set_value, but the text is accumulated wherever the cursor is
TagHandler_set_value_anywhere(self, tags, data) ==
    IF ~self.processing_value
    THEN [self EXCEPT !.current_value = data, !.processing_value = TRUE]
    ELSE [self EXCEPT !.current_value = @ \o data]

\* set_value: the handler after the call
TagHandler_set_value(self, tags, data) ==
    IF self.current_index + 1 = Len(tags)
    THEN IF ~self.processing_value
         THEN [self EXCEPT !.current_value = data, !.processing_value = TRUE]
         ELSE [self EXCEPT !.current_value = @ \o data]
    ELSE self

get_attribute(self, attr) ==
    IF attr \in DOMAIN self.current_attributes
    THEN self.current_attributes[attr]
    ELSE None

-----------------------------------------------------------------------------
(* CoverHandler *)

CoverHandler_init ==
    [ current_index      |-> -1,
      values             |-> <<>>,
      attributes_list    |-> <<>>,
      current_attributes |-> EmptyDict,
      processing_value   |-> FALSE,
      current_value      |-> <<>>,
      is_cover           |-> FALSE,
      cover_name         |-> <<>>,
      cover_data_chunks  |-> <<>>,
      is_found           |-> FALSE ]

CoverHandler_reset(self) ==
    [TagHandler_reset(self) EXCEPT !.is_cover = FALSE,
                                   !.cover_name = <<>>,
                                   !.cover_data_chunks = <<>>,
                                   !.is_found = FALSE]

\* As CoverHandler.open_tag, but an empty id is compared with the target too
CoverHandler_open_tag_empty_id(self, tags, tag, attrs) ==
    LET r        == TagHandler_open_tag(self, tags, tag, attrs)
        id_value == get_attribute(r.self, "id")
    IN  IF r.matched /\ id_value # None
           /\ lower(id_value) = lower(r.self.cover_name)
        THEN [self |-> [r.self EXCEPT !.is_cover = TRUE], matched |-> r.matched]
        ELSE r

CoverHandler_open_tag(self, tags, tag, attrs) ==
    LET r        == TagHandler_open_tag(self, tags, tag, attrs)
        id_value == get_attribute(r.self, "id")
    IN  IF r.matched /\ id_value # None /\ id_value # <<>>
           /\ lower(id_value) = lower(r.self.cover_name)
        THEN [self |-> [r.self EXCEPT !.is_cover = TRUE], matched |-> r.matched]
        ELSE r

\* As CoverHandler.close_tag, but is_found is assigned the inside flag
CoverHandler_close_tag_assign(self, tags, tag) ==
    TagHandler_close_tag([self EXCEPT !.is_found = self.is_cover, !.is_cover = FALSE],
                         tags, tag)

CoverHandler_close_tag(self, tags, tag) ==
    IF self.is_cover
    THEN TagHandler_close_tag([self EXCEPT !.is_found = TRUE, !.is_cover = FALSE],
                              tags, tag)
    ELSE TagHandler_close_tag(self, tags, tag)

\* As set_cover_name, but a reference without the fragment marker is kept
set_cover_name_any_reference(self, cover_name) ==
    [self EXCEPT !.cover_name =
        IF cover_name # None /\ cover_name # <<>>
        THEN lower(strip(cover_name, {"#"}))
        ELSE <<>>]

set_cover_name(self, cover_name) ==
    [self EXCEPT !.cover_name =
        IF cover_name # None /\ cover_name # <<>> /\ Head(cover_name) = "#"
        THEN lower(strip(cover_name, {"#"}))
        ELSE <<>>]

\* As add_data, but a chunk equal to a newline is kept
add_data_keep_newline(self, data) ==
    IF self.is_cover
    THEN [self EXCEPT !.cover_data_chunks = Append(@, data)]
    ELSE self

add_data(self, data) ==
    IF self.is_cover /\ data # <<"\n">>
    THEN [self EXCEPT !.cover_data_chunks = Append(@, data)]
    ELSE self

cover_data(self) == join(self.cover_data_chunks)

-----------------------------------------------------------------------------
(* FB2Parser *)

tags_of(name) ==
    CASE name = "author_first" -> <<"description", "title-info", "author", "first-name">>
      [] name = "author_last"  -> <<"description", "title-info", "author", "last-name">>
      [] name = "genre"        -> <<"description", "title-info", "genre">>
      [] name = "lang"         -> <<"description", "title-info", "lang">>
      [] name = "book_title"   -> <<"description", "title-info", "book-title">>
      [] name = "annotation"   -> <<"description", "title-info", "annotation", "p">>
      [] name = "docdate"      -> <<"description", "document-info", "date">>
      [] name = "series"       -> <<"description", "title-info", "sequence">>
      [] name = "cover_name"   -> <<"description", "title-info", "coverpage", "image">>
      [] name = "cover_image"  -> <<"binary">>

FieldHandlers ==
    {"author_first", "author_last", "genre", "lang", "book_title",
     "annotation", "docdate", "series"}

isCoverHandler(name) == name = "cover_image"

\* FB2Parser.__init__: the handler table of a parser built with read_cover = rc
FB2Parser_tag_handlers(rc) ==
    [name \in FieldHandlers \cup (IF rc THEN {"cover_name", "cover_image"} ELSE {}) |->
        IF isCoverHandler(name) THEN CoverHandler_init ELSE TagHandler_init]

handler_reset(name, h) ==
    IF isCoverHandler(name) THEN CoverHandler_reset(h) ELSE TagHandler_reset(h)

handler_open_tag(name, h, tag, attrs) ==
    IF isCoverHandler(name)
    THEN CoverHandler_open_tag(h, tags_of(name), tag, attrs)
    ELSE TagHandler_open_tag(h, tags_of(name), tag, attrs)

handler_close_tag(name, h, tag) ==
    IF isCoverHandler(name)
    THEN CoverHandler_close_tag(h, tags_of(name), tag)
    ELSE TagHandler_close_tag(h, tags_of(name), tag)

\* FB2Parser.start: the handler table after a start-tag event
start_handlers(hs, rc, pd, local_name, attrs) ==
    LET h1 == [n \in DOMAIN hs |->
                  IF pd /\ (~isCoverHandler(n) \/ ~rc)
                  THEN handler_open_tag(n, hs[n], local_name, attrs).self
                  ELSE hs[n]]
        r  == handler_open_tag("cover_name", h1["cover_name"], local_name, attrs)
        h2 == IF pd /\ rc /\ "cover_name" \in DOMAIN hs
              THEN IF r.matched
                   THEN [h1 EXCEPT !["cover_name"] = r.self,
                                   !["cover_image"] =
                                       set_cover_name(@, get_attribute(r.self, "href"))]
                   ELSE [h1 EXCEPT !["cover_name"] = r.self]
              ELSE h1
    IN  IF rc /\ "cover_image" \in DOMAIN hs
        THEN [h2 EXCEPT !["cover_image"] =
                  handler_open_tag("cover_image", @, local_name, attrs).self]
        ELSE h2

\* FB2Parser.end, lines 232-242: the handler table after the close_tag calls
end_closed(hs, rc, pd, local_name) ==
    LET h1 == [n \in DOMAIN hs |->
                  IF pd /\ (~isCoverHandler(n) \/ ~rc)
                  THEN handler_close_tag(n, hs[n], local_name)
                  ELSE hs[n]]
        h2 == IF pd /\ rc /\ "cover_name" \in DOMAIN hs
              THEN [h1 EXCEPT !["cover_name"] =
                        handler_close_tag("cover_name", @, local_name)]
              ELSE h1
    IN  IF rc /\ "cover_image" \in DOMAIN hs
        THEN [h2 EXCEPT !["cover_image"] =
                  handler_close_tag("cover_image", @, local_name)]
        ELSE h2

\* As author_reconcile, but the placeholder goes to the longer list
author_reconcile_swapped(hs, local_name) ==
    IF local_name = AUTHOR_TAG
    THEN LET first_values == hs["author_first"].values
             last_values  == hs["author_last"].values
         IN  IF Len(last_values) > Len(first_values)
             THEN [hs EXCEPT !["author_last"].values = Append(@, <<" ">>)]
             ELSE IF Len(last_values) < Len(first_values)
             THEN [hs EXCEPT !["author_first"].values = Append(@, <<" ">>)]
             ELSE hs
    ELSE hs

\* FB2Parser.end, lines 246-252: author pairing reconciliation
author_reconcile(hs, local_name) ==
    IF local_name = AUTHOR_TAG
    THEN LET first_values == hs["author_first"].values
             last_values  == hs["author_last"].values
         IN  IF Len(last_values) > Len(first_values)
             THEN [hs EXCEPT !["author_first"].values = Append(@, <<" ">>)]
             ELSE IF Len(last_values) < Len(first_values)
             THEN [hs EXCEPT !["author_last"].values = Append(@, <<" ">>)]
             ELSE hs
    ELSE hs

\* FB2Parser.end raises StopIteration("Cover found, stopping parse")
stops_cover_found(hs, rc) ==
    rc /\ "cover_image" \in DOMAIN hs /\ hs["cover_image"].is_found

\* As stops_no_cover, but the target is compared with None
stops_no_cover_is_none(hs, rc, local_name) ==
    local_name = DESCRIPTION_TAG /\ rc /\ hs["cover_image"].cover_name = None

\* As stops_no_cover, but the mode of the parser is not tested
stops_no_cover_any_mode(hs, rc, local_name) ==
    local_name = DESCRIPTION_TAG

\* FB2Parser.end raises StopIteration("No cover, stopping parse")
stops_no_cover(hs, rc, local_name) ==
    local_name = DESCRIPTION_TAG /\ rc /\ hs["cover_image"].cover_name = <<>>

\* FB2Parser.data: the handler table after a character-data event
data_handlers(hs, rc, pd, chunk) ==
    LET h1 == [n \in DOMAIN hs |->
                  IF pd /\ ~isCoverHandler(n)
                  THEN TagHandler_set_value(hs[n], tags_of(n), chunk)
                  ELSE hs[n]]
    IN  IF rc /\ "cover_image" \in DOMAIN hs
        THEN [h1 EXCEPT !["cover_image"] = add_data(@, chunk)]
        ELSE h1

get_body_text == strip(join(body_chunks), Whitespace)

-----------------------------------------------------------------------------
(* The events a tokenizer delivers: raw names, raw attributes, text chunks *)

LocalTags ==
    {"description", "title-info", "author", "first-name", "last-name", "genre",
     "lang", "book-title", "annotation", "p", "document-info", "date",
     "sequence", "coverpage", "image", "binary", "body", "section"}

RawNames ==
    {<<t>> : t \in LocalTags}
        \cup {<<"{", "ns", "}", "description">>, <<"BODY">>, <<"l", ":", "image">>}

RawAttrs(name) ==
    CASE normalize_tag_name(name) = "image" ->
            {<<>>,
             << <<<<"{", "xlink", "}", "href">>, <<"#", "C">>>> >>,
             << <<<<"href">>, <<"c">>>> >>}
      [] normalize_tag_name(name) = "binary" ->
            {<<>>,
             << <<<<"id">>, <<"c">>>> >>,
             << <<<<"id">>, <<"d">>>> >>}
      [] normalize_tag_name(name) = "p" ->
            {<<>>,
             << <<<<"id">>, <<"c">>>> >>}
      [] OTHER -> {<<>>}

Chunks == {<<"x">>, <<"\n">>, <<" ", "y", " ">>}

ErrorMessages == {"XMLSyntaxError"}

-----------------------------------------------------------------------------
(* The parse driver and the parser target's callbacks *)

cover_of(hs) == hs["cover_image"]

has_cover(hs) == "cover_image" \in DOMAIN hs

target_now(hs) == has_cover(hs) /\ cover_of(hs).cover_name # <<>>

\* As FB2Parser.reset, but the body flag and the body buffer are kept
FB2Parser_reset_keeps_body ==
    /\ processing_description' = TRUE
    /\ parse_error' = 0
    /\ parse_error_msg' = ""
    /\ UNCHANGED <<in_body, body_chunks>>
    /\ tag_handlers' = [n \in DOMAIN tag_handlers |-> handler_reset(n, tag_handlers[n])]

\* FB2Parser.reset
FB2Parser_reset ==
    /\ processing_description' = TRUE
    /\ parse_error' = 0
    /\ parse_error_msg' = ""
    /\ in_body' = FALSE
    /\ body_chunks' = <<>>
    /\ tag_handlers' = [n \in DOMAIN tag_handlers |-> handler_reset(n, tag_handlers[n])]

\* FB2Parser.parse, lines 281-288: reset, build the tokenizer, read the source
parse ==
    /\ unit = "none"
    /\ pc # "feeding"
    /\ FB2Parser_reset
    /\ pc' = "feeding"
    /\ nparses' = nparses + 1
    /\ stack' = <<>>
    /\ at_author_open' = <<0, 0>>
    /\ target_set' = FALSE
    /\ fed_payload' = <<>>
    /\ UNCHANGED <<read_cover, nevents, unit, ret, fed_value>>

\* FB2Parser.start
start(name, attrs) ==
    LET local_name       == normalize_tag_name(name)
        normalized_attrs == normalize_attrs(attrs)
    IN  /\ unit = "none"
        /\ pc = "feeding"
        /\ nevents' = nevents + 1
        /\ in_body' = IF local_name = BODY_TAG THEN TRUE ELSE in_body
        /\ tag_handlers' = start_handlers(tag_handlers, read_cover,
                                          processing_description,
                                          local_name, normalized_attrs)
        /\ target_set' = (target_set \/ target_now(tag_handlers'))
        /\ at_author_open' =
               IF local_name = AUTHOR_TAG
               THEN <<Len(tag_handlers["author_first"].values),
                      Len(tag_handlers["author_last"].values)>>
               ELSE at_author_open
        /\ UNCHANGED <<read_cover, processing_description, parse_error,
                       parse_error_msg, body_chunks, pc, nparses, unit, ret,
                       fed_payload, fed_value>>

\* As caught_StopIteration, but the signal falls through to `except Exception`
caught_as_Exception ==
    /\ parse_error_msg' = "StopIteration"
    /\ parse_error' = 1
    /\ pc' = "error"

\* As caught_StopIteration, but the feed loop is resumed after the signal
caught_and_resumed ==
    /\ pc' = "feeding"
    /\ UNCHANGED <<parse_error, parse_error_msg>>

\* FB2Parser.parse, lines 298-299: the StopIteration raised by a callback ends
\* the feed and is logged
caught_StopIteration ==
    /\ pc' = "stopped"
    /\ UNCHANGED <<parse_error, parse_error_msg>>

\* FB2Parser.end
end(name) ==
    LET local_name == normalize_tag_name(name)
        closed     == end_closed(tag_handlers, read_cover,
                                 processing_description, local_name)
    IN  /\ unit = "none"
        /\ pc = "feeding"
        /\ nevents' = nevents + 1
        /\ in_body' = IF local_name = BODY_TAG THEN FALSE ELSE in_body
        /\ IF stops_cover_found(closed, read_cover)
           THEN /\ tag_handlers' = closed
                /\ caught_StopIteration
                /\ UNCHANGED processing_description
           ELSE /\ tag_handlers' = author_reconcile(closed, local_name)
                /\ IF stops_no_cover(tag_handlers', read_cover, local_name)
                   THEN /\ caught_StopIteration
                        /\ UNCHANGED processing_description
                   ELSE /\ UNCHANGED <<pc, parse_error, parse_error_msg>>
                        /\ processing_description' =
                               IF local_name = DESCRIPTION_TAG
                               THEN FALSE
                               ELSE processing_description
        /\ UNCHANGED <<read_cover, body_chunks, nparses, unit, ret,
                       at_author_open, target_set, fed_payload, fed_value>>

\* As data, but the body buffer is fed only once the description has closed
data_after_description(chunk) ==
    /\ unit = "none"
    /\ pc = "feeding"
    /\ nevents' = nevents + 1
    /\ body_chunks' = IF in_body /\ ~processing_description
                      THEN Append(body_chunks, chunk)
                      ELSE body_chunks
    /\ tag_handlers' = data_handlers(tag_handlers, read_cover,
                                     processing_description, chunk)
    /\ fed_payload' = IF has_cover(tag_handlers) /\ cover_of(tag_handlers).is_cover
                         /\ chunk # <<"\n">>
                      THEN fed_payload \o chunk
                      ELSE fed_payload
    /\ UNCHANGED <<read_cover, processing_description, parse_error,
                   parse_error_msg, in_body, pc, nparses, unit, ret,
                   at_author_open, target_set, fed_value>>

\* FB2Parser.data
data(chunk) ==
    /\ unit = "none"
    /\ pc = "feeding"
    /\ nevents' = nevents + 1
    /\ body_chunks' = IF in_body THEN Append(body_chunks, chunk) ELSE body_chunks
    /\ tag_handlers' = data_handlers(tag_handlers, read_cover,
                                     processing_description, chunk)
    /\ fed_payload' = IF has_cover(tag_handlers) /\ cover_of(tag_handlers).is_cover
                         /\ chunk # <<"\n">>
                      THEN fed_payload \o chunk
                      ELSE fed_payload
    /\ UNCHANGED <<read_cover, processing_description, parse_error,
                   parse_error_msg, in_body, pc, nparses, unit, ret,
                   at_author_open, target_set, fed_value>>

\* As close, but the text of every element still open is emitted as a value
close_emits_open_values ==
    /\ unit = "none"
    /\ pc = "feeding"
    /\ pc' = "eof"
    /\ tag_handlers' =
           [name \in DOMAIN tag_handlers |->
               IF ~isCoverHandler(name) /\ tag_handlers[name].processing_value
               THEN [tag_handlers[name] EXCEPT
                        !.values = Append(@, strip(tag_handlers[name].current_value,
                                                   Whitespace)),
                        !.processing_value = FALSE,
                        !.current_value = <<>>]
               ELSE tag_handlers[name]]
    /\ UNCHANGED <<read_cover, processing_description, parse_error,
                   parse_error_msg, in_body, body_chunks, nevents, nparses,
                   stack, unit, ret, at_author_open, target_set, fed_payload,
                   fed_value>>

\* FB2Parser.close, reached from parser.close() at the end of the document
close ==
    /\ unit = "none"
    /\ pc = "feeding"
    /\ pc' = "eof"
    /\ UNCHANGED <<read_cover, engine, nevents, nparses, stack, unit, ret,
                   at_author_open, target_set, fed_payload, fed_value>>

\* FB2Parser.parse, lines 300-303: the tokenizer raised a fatal error
parse_failed(msg) ==
    /\ unit = "none"
    /\ pc = "feeding"
    /\ parse_error_msg' = msg
    /\ parse_error' = 1
    /\ pc' = "error"
    /\ UNCHANGED <<read_cover, tag_handlers, processing_description, in_body,
                   body_chunks, nevents, nparses, stack, unit, ret,
                   at_author_open, target_set, fed_payload, fed_value>>

\* FB2Parser.__init__
Init ==
    /\ read_cover \in BOOLEAN
    /\ tag_handlers = FB2Parser_tag_handlers(read_cover)
    /\ processing_description = TRUE
    /\ parse_error = 0
    /\ parse_error_msg = ""
    /\ in_body = FALSE
    /\ body_chunks = <<>>
    /\ pc = "constructed"
    /\ nevents = 0
    /\ nparses = 0
    /\ stack = <<>>
    /\ unit = "none"
    /\ ret = FALSE
    /\ doc = <<>>
    /\ first_run = <<>>
    /\ at_author_open = <<0, 0>>
    /\ target_set = FALSE
    /\ fed_payload = <<>>
    /\ fed_value = <<>>
    /\ sax = NoSax
    /\ glue = NoGlue
    /\ threads = NoThreads

\* The tokenizer delivers one event, names and text drawn from the given sets
\* in any order (the callbacks called as an interface)
feed(names, chunks, limit) ==
    \/ /\ nevents < limit
       /\ \E name \in names : \E attrs \in RawAttrs(name) : start(name, attrs)
       /\ UNCHANGED <<stack, hist>>
    \/ /\ nevents < limit
       /\ \E name \in names : end(name)
       /\ UNCHANGED <<stack, hist>>
    \/ /\ nevents < limit
       /\ \E chunk \in chunks : data(chunk)
       /\ UNCHANGED <<stack, hist>>

top(st) == IF st = <<>> THEN "#document" ELSE st[Len(st)]

\* The raw names under which a tokenizer may report a local name
RawOf(local) ==
    IF local = "description"
    THEN {<<local>>, <<"{", "ns", "}", local>>}
    ELSE {<<local>>}

\* The tokenizer delivers the next event of a well-nested document whose
\* elements nest as children[parent] allows, with text inside text_in
nested_feed(children, text_in, chunks, limit) ==
    \/ \E local \in children[top(stack)] : \E name \in RawOf(local) :
         \E attrs \in RawAttrs(name) :
            /\ nevents < limit
            /\ start(name, attrs)
            /\ stack' = Append(stack, local)
            /\ UNCHANGED hist
    \/ /\ nevents < limit
       /\ stack # <<>>
       /\ \E name \in RawOf(top(stack)) : end(name)
       /\ stack' = SubSeq(stack, 1, Len(stack) - 1)
       /\ UNCHANGED hist
    \/ /\ nevents < limit
       /\ top(stack) \in text_in
       /\ \E chunk \in chunks : data(chunk)
       /\ UNCHANGED <<stack, hist>>

finish ==
    \/ close /\ UNCHANGED hist
    \/ \E msg \in ErrorMessages : parse_failed(msg) /\ UNCHANGED hist

\* A parse() call on the parser, at most limit calls in all
parse_call(limit) == nparses < limit /\ parse /\ UNCHANGED hist

Next ==
    \/ parse_call(MaxParses)
    \/ feed(RawNames, Chunks, MaxEvents)
    \/ finish

Spec == Init /\ [][Next]_vars

\* The local name the claim says the normalizer yields: the part after the
\* namespace or the prefix, lower-cased
local_as_claimed(name) ==
    LET local == name[Len(name)]
    IN  IF local = "BODY" THEN "body" ELSE local

\* C14: the tag normalizer maps both the '{uri}local' form and the
\* 'prefix:local' form of a name to the lower-cased local name with the
\* namespace or prefix segment removed.
C14_NormalizerStripsBothForms ==
    [][ \A name \in RawNames : \A attrs \in RawAttrs(name) :
          start(name, attrs) => normalize_tag_name(name) = local_as_claimed(name) ]_vars

-----------------------------------------------------------------------------
(* Documents with author elements *)

MaxAuthorEvents == 12

Elements == LocalTags \cup {"#document"}

AuthorChildren ==
    [parent \in Elements |->
        CASE parent = "#document"     -> {"description"}
          [] parent = "description"   -> {"title-info", "document-info"}
          [] parent = "title-info"    -> {"author"}
          [] parent = "document-info" -> {"author"}
          [] parent = "author"        -> {"first-name", "last-name"}
          [] OTHER                    -> {}]

AuthorText == {"first-name", "last-name"}

AuthorChunks == {<<" ", "y", " ">>}

NextAuthors ==
    \/ parse_call(1)
    \/ nested_feed(AuthorChildren, AuthorText, AuthorChunks, MaxAuthorEvents)
    \/ finish

SpecAuthors == Init /\ [][NextAuthors]_vars


first_values == tag_handlers["author_first"].values

last_values == tag_handlers["author_last"].values

\* The step is the processing of an end-tag named 'author'
EndOfAuthor ==
    \E name \in RawNames : normalize_tag_name(name) = AUTHOR_TAG /\ end(name)

\* C1: immediately after the engine has processed an end-tag named 'author',
\* the collected-value lists of the given-name matcher and of the family-name
\* matcher have equal length.
C1_EqualLengthAfterAuthor ==
    [][EndOfAuthor => Len(first_values') = Len(last_values')]_vars

\* C2: if the two name lists had equal length when the author element opened
\* and the element produced one family name and no given name, its end-tag
\* appends exactly one blank placeholder to the given-name list, at the index
\* of the new family name; symmetrically for one given name and no family
\* name; an element that produced both names or neither appends nothing; and
\* the end of the document appends nothing.
C2_PlaceholderAtAuthorEnd ==
    [][ /\ EndOfAuthor =>
            LET f0 == at_author_open[1]
                l0 == at_author_open[2]
                f  == first_values
                l  == last_values
            IN  f0 = l0 =>
                  /\ (Len(f) = f0 /\ Len(l) = l0 + 1) =>
                        /\ first_values' = Append(f, <<" ">>)
                        /\ last_values' = l
                        /\ Len(first_values') = Len(l)
                  /\ (Len(f) = f0 + 1 /\ Len(l) = l0) =>
                        /\ last_values' = Append(l, <<" ">>)
                        /\ first_values' = f
                        /\ Len(last_values') = Len(f)
                  /\ (Len(f) - f0 = Len(l) - l0 /\ Len(f) - f0 \in {0, 1}) =>
                        /\ first_values' = f
                        /\ last_values' = l
        /\ close => UNCHANGED tag_handlers ]_vars

\* C2 witness: an author with only a family name has closed: the given-name
\* list holds a placeholder at the index of that family name
C2_Witness ==
    /\ pc = "feeding"
    /\ top(stack) = "title-info"
    /\ \E i \in 1..Len(first_values) :
          /\ i <= Len(last_values)
          /\ first_values[i] = <<" ">>
          /\ last_values[i] = <<"y">>


-----------------------------------------------------------------------------
(* One handler driven directly through its methods, in any order *)

AllHandlers == FieldHandlers \cup {"cover_name", "cover_image"}

UnitTags(name) == {tags_of(name)[i] : i \in 1..Len(tags_of(name))} \cup {"section"}

UnitAttrs ==
    {NoAttrs, EmptyDict, [id |-> <<"C">>], [id |-> <<"d">>], [id |-> <<>>]}

UnitReferences == {None, <<>>, <<"#", "C">>, <<"c">>, <<"#", "c", "#">>}

UnitInit ==
    /\ unit \in AllHandlers
    /\ read_cover = isCoverHandler(unit)
    /\ tag_handlers = [n \in {unit} |->
                          IF isCoverHandler(n) THEN CoverHandler_init ELSE TagHandler_init]
    /\ processing_description = TRUE
    /\ parse_error = 0
    /\ parse_error_msg = ""
    /\ in_body = FALSE
    /\ body_chunks = <<>>
    /\ pc = "unit"
    /\ nevents = 0
    /\ nparses = 0
    /\ stack = <<>>
    /\ ret = FALSE
    /\ doc = <<>>
    /\ first_run = <<>>
    /\ at_author_open = <<0, 0>>
    /\ target_set = FALSE
    /\ fed_payload = <<>>
    /\ fed_value = <<>>
    /\ sax = NoSax
    /\ glue = NoGlue
    /\ threads = NoThreads

\* The cursor of handler n indexes the last segment of its path
on_last_segment(n) == tag_handlers[n].current_index + 1 = Len(tags_of(n))

unit_frame ==
    UNCHANGED <<read_cover, processing_description, parse_error, parse_error_msg,
                in_body, body_chunks, pc, nparses, stack, unit, hist,
                at_author_open>>

unit_open_tag(tag, attrs) ==
    LET r == handler_open_tag(unit, tag_handlers[unit], tag, attrs)
    IN  /\ pc = "unit"
        /\ tag_handlers' = [tag_handlers EXCEPT ![unit] = r.self]
        /\ ret' = r.matched
        /\ nevents' = nevents + 1
        /\ UNCHANGED <<target_set, fed_payload, fed_value>>
        /\ unit_frame

unit_close_tag(tag) ==
    /\ pc = "unit"
    /\ tag_handlers' = [tag_handlers EXCEPT ![unit] = handler_close_tag(unit, @, tag)]
    /\ nevents' = nevents + 1
    /\ fed_value' = IF on_last_segment(unit) /\ tag = tags_of(unit)[Len(tags_of(unit))]
                    THEN <<>>
                    ELSE fed_value
    /\ UNCHANGED <<ret, target_set, fed_payload>>
    /\ unit_frame

unit_set_value(chunk) ==
    /\ pc = "unit"
    /\ tag_handlers' = [tag_handlers EXCEPT ![unit] =
                            TagHandler_set_value(@, tags_of(unit), chunk)]
    /\ nevents' = nevents + 1
    /\ fed_value' = IF on_last_segment(unit) THEN Append(fed_value, chunk) ELSE fed_value
    /\ UNCHANGED <<ret, target_set, fed_payload>>
    /\ unit_frame

unit_reset ==
    /\ pc = "unit"
    /\ tag_handlers' = [tag_handlers EXCEPT ![unit] = handler_reset(unit, @)]
    /\ nevents' = nevents + 1
    /\ target_set' = FALSE
    /\ fed_payload' = <<>>
    /\ fed_value' = <<>>
    /\ UNCHANGED ret
    /\ unit_frame

unit_set_cover_name(reference) ==
    /\ pc = "unit"
    /\ isCoverHandler(unit)
    /\ tag_handlers' = [tag_handlers EXCEPT ![unit] = set_cover_name(@, reference)]
    /\ nevents' = nevents + 1
    /\ target_set' = (target_set \/ target_now(tag_handlers'))
    /\ UNCHANGED <<ret, fed_payload, fed_value>>
    /\ unit_frame

unit_add_data(chunk) ==
    /\ pc = "unit"
    /\ isCoverHandler(unit)
    /\ tag_handlers' = [tag_handlers EXCEPT ![unit] = add_data(@, chunk)]
    /\ nevents' = nevents + 1
    /\ fed_payload' = IF tag_handlers[unit].is_cover /\ chunk # <<"\n">>
                      THEN fed_payload \o chunk
                      ELSE fed_payload
    /\ UNCHANGED <<ret, target_set, fed_value>>
    /\ unit_frame

more_calls == nevents < MaxCalls

UnitNext ==
    \/ more_calls /\ \E tag \in UnitTags(unit) : \E attrs \in UnitAttrs :
                        unit_open_tag(tag, attrs)
    \/ more_calls /\ \E tag \in UnitTags(unit) : unit_close_tag(tag)
    \/ more_calls /\ \E chunk \in Chunks : unit_set_value(chunk)
    \/ more_calls /\ unit_reset
    \/ more_calls /\ \E reference \in UnitReferences : unit_set_cover_name(reference)
    \/ more_calls /\ \E chunk \in Chunks : unit_add_data(chunk)

SpecUnit == UnitInit /\ [][UnitNext]_vars


\* C4: once the cover matcher's found flag is true, no open, close, add_data
\* or set_target call makes it false; only reset clears it.
C4_FoundIsSticky ==
    [][ (has_cover(tag_handlers) /\ cover_of(tag_handlers).is_found
            /\ ~cover_of(tag_handlers').is_found)
        => (unit_reset \/ parse) ]_vars

\* C4 witness: after found was set the matcher was opened on a cover element
\* again, and found is still true
C4_Witness ==
    /\ pc = "unit"
    /\ has_cover(tag_handlers)
    /\ cover_of(tag_handlers).is_found
    /\ cover_of(tag_handlers).is_cover

\* C6: the cover payload is the concatenation, in call order, of exactly the
\* add_data chunks that arrived while the matcher was inside a cover element
\* and were not a single newline; any other chunk leaves it unchanged.
C6_PayloadIsFedChunks ==
    has_cover(tag_handlers) => cover_data(cover_of(tag_handlers)) = fed_payload

\* C6 witness: two chunks were kept, around calls that were skipped
C6_Witness ==
    /\ pc = "unit"
    /\ has_cover(tag_handlers)
    /\ cover_of(tag_handlers).cover_data_chunks = << <<"x">>, <<" ", "y", " ">> >>
    /\ cover_data(cover_of(tag_handlers)) = <<"x", " ", "y", " ">>

\* C27: the cover matcher enters a cover element only in an open that matched
\* its path and whose 'id' attribute, compared case-insensitively, equals the
\* target, the target not being empty; while it is inside a cover element its
\* cursor is on the last path segment; and a payload that is not empty
\* implies that a non-empty target was set before its first chunk.
C27_InsideCover ==
    /\ [][(has_cover(tag_handlers) /\ ~cover_of(tag_handlers).is_cover
              /\ cover_of(tag_handlers').is_cover) =>
            LET before == cover_of(tag_handlers)
                after  == cover_of(tag_handlers')
            IN  /\ \E tag \in UnitTags(unit) : \E attrs \in UnitAttrs :
                      /\ unit_open_tag(tag, attrs)
                      /\ attrs # NoAttrs
                      /\ "id" \in DOMAIN attrs
                      /\ lower(attrs["id"]) = lower(before.cover_name)
                /\ ret'
                /\ before.cover_name # <<>>
                /\ after.cover_name = before.cover_name
                /\ target_set]_vars
    /\ [](has_cover(tag_handlers) =>
            /\ cover_of(tag_handlers).is_cover =>
                  cover_of(tag_handlers).current_index + 1 = Len(tags_of("cover_image"))
            /\ cover_data(cover_of(tag_handlers)) # <<>> => target_set)
    /\ [][(has_cover(tag_handlers)
              /\ cover_of(tag_handlers').cover_data_chunks
                    # cover_of(tag_handlers).cover_data_chunks
              /\ cover_of(tag_handlers).cover_data_chunks = <<>>
              /\ ~unit_reset) => target_set]_vars

\* C27 witness: the matcher entered the element with the id C under the target
\* c, the target was then replaced by an empty one, and a chunk was kept
C27_Witness ==
    /\ pc = "unit"
    /\ has_cover(tag_handlers)
    /\ cover_of(tag_handlers).is_cover
    /\ cover_of(tag_handlers).current_attributes = [id |-> <<"C">>]
    /\ cover_of(tag_handlers).cover_name = <<>>
    /\ cover_data(cover_of(tag_handlers)) = <<"x">>
    /\ target_set

unit_handler == tag_handlers[unit]

last_segment == Len(tags_of(unit)) - 1

\* C9: open(tag, attrs) advances the cursor by exactly one if the cursor is
\* not at the last segment and the next segment equals tag, and leaves it
\* unchanged otherwise; it records attrs (current attributes, and appended to
\* the history) and returns true if and only if the cursor indexes the last
\* segment after the step.
C9_OpenContract ==
    [][ \A tag \in UnitTags(unit) : \A attrs \in UnitAttrs :
          unit_open_tag(tag, attrs) =>
            LET h     == unit_handler
                h2    == unit_handler'
                given == IF attrs = NoAttrs THEN EmptyDict ELSE attrs
                next  == h.current_index < last_segment
                            /\ tags_of(unit)[h.current_index + 2] = tag
            IN  /\ next => h2.current_index = h.current_index + 1
                /\ ~next => h2.current_index = h.current_index
                /\ ret' <=> (h2.current_index = last_segment)
                /\ ret' => /\ h2.current_attributes = given
                           /\ h2.attributes_list = Append(h.attributes_list, given)
                /\ ~ret' => /\ h2.current_attributes = h.current_attributes
                            /\ h2.attributes_list = h.attributes_list
                /\ h2.values = h.values ]_vars

\* C9 witness: an open call on a matcher already on its last segment returned
\* true and recorded its attributes a second time
C9_Witness ==
    /\ pc = "unit"
    /\ ret
    /\ unit_handler.current_index = last_segment
    /\ Len(unit_handler.attributes_list) = 2
    /\ unit_handler.current_attributes = [id |-> <<"C">>]

\* C10: close(tag) retreats the cursor by exactly one if the cursor is
\* non-negative and the segment at the cursor equals tag, and then, if a value
\* was being accumulated, appends its trimmed form to the collected values and
\* ends accumulation; in every other case the matcher is unchanged.
C10_CloseContract ==
    [][ \A tag \in UnitTags(unit) :
          (unit_close_tag(tag) /\ ~isCoverHandler(unit)) =>
            LET h  == unit_handler
                h2 == unit_handler'
            IN  IF h.current_index >= 0 /\ tags_of(unit)[h.current_index + 1] = tag
                THEN /\ h2.current_index = h.current_index - 1
                     /\ h2.attributes_list = h.attributes_list
                     /\ h2.current_attributes = h.current_attributes
                     /\ IF h.processing_value
                        THEN /\ h2.values =
                                  Append(h.values, strip(h.current_value, Whitespace))
                             /\ ~h2.processing_value
                             /\ LET v == h2.values[Len(h2.values)]
                                IN  v # <<>> => /\ v[1] \notin Whitespace
                                                /\ v[Len(v)] \notin Whitespace
                        ELSE /\ h2.values = h.values
                             /\ ~h2.processing_value
                ELSE h2 = h ]_vars

\* C10 witness: a close flushed the value accumulated from the chunk " y "
C10_Witness ==
    /\ pc = "unit"
    /\ ~isCoverHandler(unit)
    /\ unit_handler.values = << <<"y">> >>
    /\ unit_handler.current_index = last_segment - 1
    /\ ~unit_handler.processing_value


\* C11: set_text accumulates only while the cursor indexes the last segment:
\* the buffer is the concatenation, in order and without loss, of the chunks
\* received there since the previous flush, the value appended at the matching
\* close is its whitespace-trimmed form, and data received at any other cursor
\* position changes nothing.
C11_TextAccumulation ==
    /\ [](pc = "unit" =>
            /\ unit_handler.processing_value <=> fed_value # <<>>
            /\ unit_handler.current_value = join(fed_value)
            /\ fed_value # <<>> => on_last_segment(unit))
    /\ [][ /\ \A chunk \in Chunks :
                (unit_set_value(chunk) /\ ~on_last_segment(unit)) =>
                    unit_handler' = unit_handler
           /\ \A tag \in UnitTags(unit) :
                unit_close_tag(tag) =>
                    unit_handler'.values =
                        IF fed_value # <<>> /\ fed_value' = <<>>
                        THEN Append(unit_handler.values,
                                    strip(join(fed_value), Whitespace))
                        ELSE unit_handler.values ]_vars

\* C11 witness: the chunks " y " and "x" were received on the last segment and
\* flushed as one value, trimmed at both ends only
C11_Witness ==
    /\ pc = "unit"
    /\ unit_handler.values = << <<"y", " ", "x">> >>
    /\ fed_value = <<>>

\* C33: for every matcher and every sequence of open, close and set_text
\* calls, balanced or not, the cursor stays within -1 .. path_length - 1.
C33_CursorInRange ==
    pc = "unit" =>
        /\ unit_handler.current_index >= -1
        /\ unit_handler.current_index <= last_segment

\* C33 witness: two opens on the last segment were followed by a close, and
\* the cursor is back before the path
C33_Witness ==
    /\ pc = "unit"
    /\ Len(unit_handler.attributes_list) = 2
    /\ unit_handler.current_index = -1
    /\ nevents >= 4

\* C34: for every matcher and every call sequence, a value is being
\* accumulated only while the cursor is on the last path segment; when the
\* cursor is anywhere else the buffer in progress is empty and inactive.
C34_BufferOnLastSegment ==
    pc = "unit" =>
        /\ unit_handler.processing_value => on_last_segment(unit)
        /\ ~on_last_segment(unit) =>
              /\ unit_handler.current_value = <<>>
              /\ ~unit_handler.processing_value

\* C34 witness: the text received by the matcher of the binary element on its
\* only segment was flushed by the close that moved the cursor off it, and a
\* further call found the matcher off its path
C34_Witness ==
    /\ pc = "unit"
    /\ unit = "cover_image"
    /\ unit_handler.current_index = -1
    /\ unit_handler.values = << <<"x">> >>
    /\ unit_handler.current_value = <<>>
    /\ ~unit_handler.processing_value
    /\ Len(unit_handler.attributes_list) = 1
    /\ nevents = 4

\* The step is an open, close or add_data call on the handler under test
unit_open_close_add ==
    \/ \E tag \in UnitTags(unit) : \E attrs \in UnitAttrs : unit_open_tag(tag, attrs)
    \/ \E tag \in UnitTags(unit) : unit_close_tag(tag)
    \/ \E chunk \in Chunks : unit_add_data(chunk)

\* While the target is empty no open, close or add_data call makes the matcher
\* enter a cover element or set found
EmptyTargetNeverMatches ==
    /\ [](pc = "unit" /\ isCoverHandler(unit) /\ ~target_set =>
            /\ ~unit_handler.is_cover
            /\ ~unit_handler.is_found
            /\ unit_handler.cover_data_chunks = <<>>)
    /\ [][ (pc = "unit" /\ isCoverHandler(unit) /\ unit_handler.cover_name = <<>>
              /\ ~unit_handler.is_cover /\ unit_open_close_add) =>
                /\ ~unit_handler'.is_cover
                /\ unit_handler'.is_found = unit_handler.is_found ]_vars

\* The target the claim says set_target stores: the reference lower-cased,
\* without its leading fragment marker
target_as_claimed(reference) ==
    CASE reference = None               -> <<>>
      [] reference = <<>>               -> <<>>
      [] reference = <<"#", "C">>       -> <<"c">>
      [] reference = <<"c">>            -> <<"c">>
      [] reference = <<"#", "c", "#">>  -> <<"c", "#">>

\* The target the amended claim says set_target stores
target_as_amended(reference) ==
    CASE reference = None               -> <<>>
      [] reference = <<>>               -> <<>>
      [] reference = <<"#", "C">>       -> <<"c">>
      [] reference = <<"c">>            -> <<>>
      [] reference = <<"#", "c", "#">>  -> <<"c">>

-----------------------------------------------------------------------------
(* Documents with a description, a cover reference, binary objects and a body *)

MaxDocEvents == 12

DocChildren ==
    [parent \in Elements |->
        CASE parent = "#document"   -> {"description", "body", "binary"}
          [] parent = "description" -> {"title-info"}
          [] parent = "title-info"  -> {"genre", "coverpage"}
          [] parent = "coverpage"   -> {"image"}
          [] parent = "body"        -> {"p"}
          [] parent = "binary"      -> {"p"}
          [] OTHER                  -> {}]

DocText == {"genre", "p", "binary"}

DocChunks == {<<"x">>, <<"\n">>}

NextDocs ==
    \/ parse_call(1)
    \/ nested_feed(DocChildren, DocText, DocChunks, MaxDocEvents)
    \/ finish

SpecDocs == Init /\ [][NextDocs]_vars


cover == cover_of(tag_handlers)

\* The step is the processing of an end-tag with the given local name
EndOf(local) ==
    \E name \in RawNames \cup RawOf(local) :
        normalize_tag_name(name) = local /\ end(name)

IsPrefix(s, t) == Len(s) <= Len(t) /\ SubSeq(t, 1, Len(s)) = s

\* C3: in a cover-scan parse in which the cover target is never set to a
\* non-empty value, the cover matcher never enters a cover element and never
\* sets found, the payload stays empty, the parse terminates at the end-tag of
\* the description section (and only there), and nothing is processed after it.
C3_NoTargetStopsAtDescription ==
    /\ [](( read_cover /\ ~target_set /\ pc # "constructed") =>
            /\ ~cover.is_cover
            /\ ~cover.is_found
            /\ cover_data(cover) = <<>>)
    /\ [][ (read_cover /\ ~target_set') =>
             /\ EndOf(DESCRIPTION_TAG) => pc' = "stopped"
             /\ (pc = "feeding" /\ pc' = "stopped") => EndOf(DESCRIPTION_TAG)
             /\ pc = "stopped" => UNCHANGED <<engine, nevents>> ]_vars

\* C3 witness: a cover scan without a cover reference met a binary element
\* with an id and text, and stopped at the end of the description
C3_Witness ==
    /\ read_cover
    /\ ~target_set
    /\ pc = "stopped"
    /\ Len(cover.attributes_list) >= 2
    /\ cover.current_attributes = [id |-> <<"c">>]
    /\ cover_data(cover) = <<>>

\* C5: the found flag becomes true exactly at the end-tag event that closes
\* the matched cover element, never on a data event and never on the close of
\* any other tag, and in cover-scan mode the parse terminates at that event.
C5_FoundAtCoverElementEnd ==
    [][ (has_cover(tag_handlers) /\ ~cover.is_found /\ cover'.is_found) =>
            (EndOf("binary") /\ pc' = "stopped") ]_vars

\* C12: for every matcher, attribute_history and collected_values each hold
\* exactly one entry per full match of the path: an event adds one entry to
\* the attribute history exactly when it moves the cursor onto the last
\* segment, and one collected value exactly when it moves the cursor off it.
C12_OneEntryPerFullMatch ==
    [][ pc = "feeding" =>
          \A n \in DOMAIN tag_handlers :
            LET h     == tag_handlers[n]
                h2    == tag_handlers'[n]
                last  == Len(tags_of(n)) - 1
                onto  == h.current_index < last /\ h2.current_index = last
                off   == h.current_index = last /\ h2.current_index < last
            IN  /\ Len(h2.attributes_list) =
                      Len(h.attributes_list) + (IF onto THEN 1 ELSE 0)
                /\ Len(h2.values) = Len(h.values) + (IF off THEN 1 ELSE 0) ]_vars

\* The step is the start-tag of a binary element whose id is the cover target
StartOfTargetBinary ==
    \E name \in RawOf("binary") : \E attrs \in RawAttrs(name) :
        /\ start(name, attrs)
        /\ "id" \in DOMAIN normalize_attrs(attrs)
        /\ lower(normalize_attrs(attrs)["id"]) = cover.cover_name

\* C16: a cover scan whose description closes with a non-empty cover reference
\* continues past the description end-tag; the matcher enters a cover element
\* only at the start-tag of a binary element with that identifier, sets found
\* and collects payload only inside one, so that without such an element the
\* scan reaches the end of the document with found unset and an empty payload.
C16_NoBinaryNoCover ==
    [][ (read_cover /\ pc = "feeding") =>
          /\ (EndOf(DESCRIPTION_TAG) /\ cover'.cover_name # <<>>) =>
                (pc' = "feeding" /\ ~processing_description')
          /\ (~cover.is_cover /\ cover'.is_cover) => StartOfTargetBinary
          /\ (~cover.is_found /\ cover'.is_found) => cover.is_cover
          /\ cover'.cover_data_chunks # cover.cover_data_chunks => cover.is_cover ]_vars

\* C7: a parse ends in exactly one of end-of-document, early termination or
\* tokenizer error; the error flag is set only in the error outcome; an early
\* termination leaves the error flag at 0 and keeps every value accumulated
\* before the stop readable.
C7_Outcomes ==
    /\ [](/\ pc \in {"constructed", "feeding", "eof", "stopped", "error"}
          /\ parse_error \in {0, 1}
          /\ parse_error = 1 <=> pc = "error")
    /\ [][ /\ (pc = "feeding" /\ pc' = "stopped") =>
                /\ parse_error' = 0
                /\ parse_error_msg' = ""
                /\ \E local \in LocalTags : EndOf(local)
                /\ body_chunks' = body_chunks
                /\ \A n \in DOMAIN tag_handlers :
                      /\ IsPrefix(tag_handlers[n].values, tag_handlers'[n].values)
                      /\ IsPrefix(tag_handlers[n].attributes_list,
                                  tag_handlers'[n].attributes_list)
                /\ has_cover(tag_handlers) =>
                      cover'.cover_data_chunks = cover.cover_data_chunks
           /\ (pc = "feeding" /\ pc' = "eof") => UNCHANGED engine
           /\ (pc = "feeding" /\ pc' = "error") =>
                UNCHANGED <<tag_handlers, body_chunks>>
           /\ pc \in {"eof", "stopped", "error"} => (UNCHANGED engine \/ parse) ]_vars

\* C7 witness: a cover scan stopped early at the cover element's end with the
\* cover reference and the payload collected
C7_Witness ==
    /\ pc = "stopped"
    /\ parse_error = 0
    /\ read_cover
    /\ cover.is_found
    /\ cover_data(cover) = <<"x">>
    /\ tag_handlers["cover_name"].attributes_list # <<>>


-----------------------------------------------------------------------------
(* The same parser parses the same document twice: the first parse is fed a *)
(* well-nested document, which is recorded; the second is fed it again      *)

MaxTwiceEvents == 5

StartEvents(children, st) ==
    UNION {UNION {{[kind |-> "start", name |-> name, attrs |-> attrs, local |-> local] :
                      attrs \in RawAttrs(name)} :
                  name \in RawOf(local)} :
           local \in children[top(st)]}

deliver(ev) ==
    CASE ev.kind = "start" -> start(ev.name, ev.attrs) /\ stack' = Append(stack, ev.local)
      [] ev.kind = "end"   -> end(ev.name) /\ stack' = SubSeq(stack, 1, Len(stack) - 1)
      [] ev.kind = "data"  -> data(ev.chunk) /\ UNCHANGED stack

\* What a caller can read from the parser after a parse
left_behind ==
    [pc |-> pc, tag_handlers |-> tag_handlers,
     processing_description |-> processing_description,
     parse_error |-> parse_error, parse_error_msg |-> parse_error_msg,
     in_body |-> in_body, body_chunks |-> body_chunks]

replayed == nevents - Len(doc)

twice_first_parse ==
    /\ nparses = 0
    /\ parse
    /\ UNCHANGED hist

twice_feed_start ==
    \E ev \in StartEvents(DocChildren, stack) :
        /\ nparses = 1
        /\ nevents < MaxTwiceEvents
        /\ deliver(ev)
        /\ doc' = Append(doc, ev)
        /\ UNCHANGED <<first_run, sax, glue, threads>>

twice_feed_end ==
    \E name \in RawOf(top(stack)) :
        /\ nparses = 1
        /\ nevents < MaxTwiceEvents
        /\ stack # <<>>
        /\ deliver([kind |-> "end", name |-> name])
        /\ doc' = Append(doc, [kind |-> "end", name |-> name])
        /\ UNCHANGED <<first_run, sax, glue, threads>>

twice_feed_data ==
    \E chunk \in DocChunks :
        /\ nparses = 1
        /\ nevents < MaxTwiceEvents
        /\ top(stack) \in DocText
        /\ deliver([kind |-> "data", chunk |-> chunk])
        /\ doc' = Append(doc, [kind |-> "data", chunk |-> chunk])
        /\ UNCHANGED <<first_run, sax, glue, threads>>

twice_first_finish ==
    /\ nparses = 1
    /\ finish

twice_second_parse ==
    /\ nparses = 1
    /\ parse
    /\ first_run' = left_behind
    /\ UNCHANGED <<doc, sax, glue, threads>>

twice_replay ==
    /\ nparses = 2
    /\ replayed < Len(doc)
    /\ deliver(doc[replayed + 1])
    /\ UNCHANGED hist

\* The document ends for the second parse as it ended for the first
twice_second_finish ==
    /\ nparses = 2
    /\ replayed = Len(doc)
    /\ \/ first_run.pc = "eof" /\ close
       \/ first_run.pc = "error" /\ parse_failed(first_run.parse_error_msg)
    /\ UNCHANGED hist

NextTwice ==
    \/ twice_first_parse
    \/ twice_feed_start
    \/ twice_feed_end
    \/ twice_feed_data
    \/ twice_first_finish
    \/ twice_second_parse
    \/ twice_replay
    \/ twice_second_finish

SpecTwice == Init /\ [][NextTwice]_vars

-----------------------------------------------------------------------------
(* FB2Sax: the Document Summary built from the handlers of a metadata parse *)

\* book_tools.format.util.strip_symbols: the cosmetic symbols trimmed from
\* both ends of a summary field
strip_symbols == {" ", "\"", "'", "[", "]", "\n"}

\* " ".join([first_name, last_name]).strip()
full_name_of(first_name, last_name) ==
    strip(first_name \o <<" ">> \o last_name, Whitespace)

\* BookFile.__add_author__(name, sortkey)
add_author(authors, name, sortkey) ==
    Append(authors, [name |-> name, sortkey |-> sortkey])

\* As detect_title, but the last collected book-title is taken
detect_title_last(hs) ==
    LET titles == hs["book_title"].values
    IN  IF titles # <<>> THEN strip(titles[Len(titles)], strip_symbols) ELSE None

\* FB2Sax._detect_title: the title, or None when no book-title was collected
detect_title(hs) ==
    LET titles == hs["book_title"].values
    IN  IF titles # <<>> THEN strip(titles[1], strip_symbols) ELSE None

RECURSIVE detect_authors_from(_, _, _, _)
detect_authors_from(first_names, last_names, idx, authors) ==
    IF idx > Len(last_names) THEN authors
    ELSE LET last_name  == strip(last_names[idx], strip_symbols)
             first_name == IF idx <= Len(first_names)
                           THEN strip(first_names[idx], strip_symbols)
                           ELSE <<>>
         IN  detect_authors_from(first_names, last_names, idx + 1,
                 add_author(authors, full_name_of(first_name, last_name), last_name))

\* FB2Sax._detect_authors
detect_authors(hs) ==
    detect_authors_from(hs["author_first"].values, hs["author_last"].values, 1, <<>>)

\* FB2Sax._detect_language
detect_language(hs) ==
    LET langs == hs["lang"].values
    IN  IF langs # <<>> THEN strip(langs[1], strip_symbols) ELSE None

\* FB2Sax._detect_tags
detect_tags(hs) ==
    LET genres == hs["genre"].values
    IN  [i \in 1..Len(genres) |-> strip(lower(genres[i]), strip_symbols)]

\* dict.get(key, default)
dict_get(d, key, default) == IF key \in DOMAIN d THEN d[key] ELSE default

\* None, where the value is otherwise a dict or a row
NoDict == [none |-> TRUE]

\* As detect_series_info, but the last matched series element is read
detect_series_info_last(hs) ==
    LET series_attrs == hs["series"].attributes_list
    IN  IF series_attrs = <<>> THEN NoDict
        ELSE LET attr     == series_attrs[Len(series_attrs)]
                 ser_name == dict_get(attr, "name", None)
             IN  IF ser_name # None /\ ser_name # <<>>
                 THEN [title |-> strip(ser_name, strip_symbols),
                       index |-> strip(dict_get(attr, "number", <<"0">>), strip_symbols)]
                 ELSE NoDict

\* FB2Sax._detect_series_info: the series_info dict, or None when it is not set
detect_series_info(hs) ==
    LET series_attrs == hs["series"].attributes_list
    IN  IF series_attrs = <<>> THEN NoDict
        ELSE LET attr     == series_attrs[1]
                 ser_name == dict_get(attr, "name", None)
             IN  IF ser_name # None /\ ser_name # <<>>
                 THEN [title |-> strip(ser_name, strip_symbols),
                       index |-> strip(dict_get(attr, "number", <<"0">>), strip_symbols)]
                 ELSE NoDict

\* FB2Sax._detect_docdate
detect_docdate(hs) ==
    LET value     == get_attribute(hs["docdate"], "value")
        date_attr == IF value = None THEN <<>> ELSE value
        dates     == hs["docdate"].values
        date_text == IF date_attr = <<>> /\ dates # <<>>
                     THEN strip(dates[1], Whitespace)
                     ELSE date_attr
    IN  IF date_text # <<>> THEN date_text ELSE None

RECURSIVE join_lines(_)
join_lines(values) ==
    IF values = <<>> THEN <<>>
    ELSE IF Len(values) = 1 THEN values[1]
    ELSE values[1] \o <<"\n">> \o join_lines(Tail(values))

\* FB2Sax._detect_description
detect_description(hs) ==
    LET annotations == hs["annotation"].values
    IN  IF annotations # <<>> THEN join_lines(annotations) ELSE None

\* FB2Sax.__init__, lines 332-339: the summary fields set after a metadata
\* parse that ended without error, the parser kept as self.parser, and the
\* source file left at its end by read()
FB2Sax_built(hs, chunks, source) ==
    [ state         |-> "built",
      title         |-> detect_title(hs),
      authors       |-> detect_authors(hs),
      tags          |-> detect_tags(hs),
      series_info   |-> detect_series_info(hs),
      language_code |-> detect_language(hs),
      docdate       |-> detect_docdate(hs),
      description   |-> detect_description(hs),
      body_sample   |-> strip(join(chunks), Whitespace),
      parser        |-> [tag_handlers |-> hs, body_chunks |-> chunks],
      file_pos      |-> Len(source),
      source        |-> <<>>,
      cursor        |-> 0,
      covers        |-> <<>>,
      series_rows   |-> <<>> ]

\* FB2Sax.__init__, lines 330-331: FB2StructureException carrying the message
FB2Sax_failed(msg) ==
    [state |-> "failed", error |-> <<"FB2Sax parse error", msg>>]

\* As FB2Sax_init, but the error flag of the parser is not looked at
FB2Sax_init_ignores_error(error, msg, hs, chunks, source) ==
    FB2Sax_built(hs, chunks, source)

\* FB2Sax.__init__, lines 329-339: what the constructor leaves once parse()
\* has returned
FB2Sax_init(error, msg, hs, chunks, source) ==
    IF error # 0 THEN FB2Sax_failed(msg) ELSE FB2Sax_built(hs, chunks, source)

\* FB2Sax.__init__, lines 326-329: the metadata parser is built and parse()
\* begins reading the source
sax_construct ==
    /\ sax.state = "none"
    /\ ~read_cover
    /\ nparses = 0
    /\ parse
    /\ sax' = [state |-> "parsing"]
    /\ UNCHANGED <<doc, first_run, glue, threads>>

\* The attributes a start-tag of the summary documents may carry
SaxAttrs(local) ==
    CASE local = "sequence" ->
            {<<>>,
             << <<<<"name">>, <<"S">>>> >>,
             << <<<<"number">>, <<"2">>>> >>,
             << <<<<"name">>, <<>>>>, <<<<"number">>, <<"2">>>> >>,
             << <<<<"name">>, <<"S">>>>, <<<<"number">>, <<>>>> >>,
             << <<<<"name">>, <<"S">>>>, <<<<"number">>, <<"x">>>> >>,
             << <<<<"name">>, <<"S">>>>, <<<<"number">>, <<"2", "7">>>> >>,
             << <<<<"name">>, <<"'", "T", "'">>>>, <<<<"number">>, <<" ", "2">>>> >>}
      [] local = "image" ->
            {<<>>, << <<<<"{", "xlink", "}", "href">>, <<"#", "C">>>> >>}
      [] local = "binary" ->
            {<< <<<<"id">>, <<"c">>>> >>, << <<<<"id">>, <<"d">>>> >>}
      [] OTHER -> {<<>>}

\* The text chunks the tokenizer may deliver inside an element of the summary
\* documents
SaxText(local) ==
    CASE local = "book-title" -> {<<"S", "a", "m", "p", "l", "e">>, <<"\n">>}
      [] local = "first-name" -> {<<"A", "n", "n">>}
      [] local = "last-name"  -> {<<"L", "e", "e">>}
      [] local = "genre"      -> {<<"p", "r", "o", "s", "e">>, <<" ", "X", " ">>}
      [] local = "binary"     -> {<<"e", "H", "h", "4">>, <<"x">>, <<"\n">>}
      [] local = "p"          -> {<<"x">>}
      [] OTHER -> {}

\* The tokenizer delivers to the metadata parser the next event of a
\* well-nested document, which is the content of the source file
sax_feed_start(children, limit) ==
    \E local \in children[top(stack)] : \E name \in RawOf(local) :
      \E attrs \in SaxAttrs(local) :
        LET ev == [kind |-> "start", name |-> name, attrs |-> attrs, local |-> local]
        IN  /\ sax.state = "parsing"
            /\ nevents < limit
            /\ deliver(ev)
            /\ doc' = Append(doc, ev)
            /\ UNCHANGED <<first_run, sax, glue, threads>>

sax_feed_end(limit) ==
    \E name \in RawOf(top(stack)) :
        /\ sax.state = "parsing"
        /\ nevents < limit
        /\ stack # <<>>
        /\ deliver([kind |-> "end", name |-> name])
        /\ doc' = Append(doc, [kind |-> "end", name |-> name])
        /\ UNCHANGED <<first_run, sax, glue, threads>>

sax_feed_data(limit) ==
    \E chunk \in SaxText(top(stack)) :
        /\ sax.state = "parsing"
        /\ nevents < limit
        /\ deliver([kind |-> "data", chunk |-> chunk])
        /\ doc' = Append(doc, [kind |-> "data", chunk |-> chunk])
        /\ UNCHANGED <<first_run, sax, glue, threads>>

\* FB2Sax.__init__, lines 329-339: the source ends, parse() returns, and the
\* summary is built
sax_built ==
    /\ sax.state = "parsing"
    /\ close
    /\ sax' = FB2Sax_init(parse_error', parse_error_msg', tag_handlers',
                          body_chunks', doc)
    /\ UNCHANGED <<doc, first_run, glue, threads>>

\* FB2Sax.__init__, lines 329-331: the tokenizer fails, parse() returns with
\* the error flag set, and the constructor raises
sax_failed ==
    \E msg \in ErrorMessages :
        /\ sax.state = "parsing"
        /\ parse_failed(msg)
        /\ sax' = FB2Sax_init(parse_error', parse_error_msg', tag_handlers',
                              body_chunks', doc)
        /\ UNCHANGED <<doc, first_run, glue, threads>>

-----------------------------------------------------------------------------
(* The series of a document, from the summary to the catalogue row *)

MaxSeriesEvents == 6

Digits == {"0", "1", "2", "3", "4", "5", "6", "7", "8", "9"}

\* str.isdigit()
isdigit(text) == text # <<>> /\ \A i \in 1..Len(text) : text[i] \in Digits

digit_value(c) ==
    CASE c = "0" -> 0 [] c = "1" -> 1 [] c = "2" -> 2 [] c = "3" -> 3
      [] c = "4" -> 4 [] c = "5" -> 5 [] c = "6" -> 6 [] c = "7" -> 7
      [] c = "8" -> 8 [] c = "9" -> 9

\* int(text) of a string of decimal digits
RECURSIVE int(_)
int(text) ==
    IF text = <<>> THEN 0
    ELSE 10 * int(SubSeq(text, 1, Len(text) - 1)) + digit_value(text[Len(text)])

\* BookProcessor.clean_text
clean_text(text) == strip(IF text = None THEN <<>> ELSE text, strip_symbols)

\* BookProcessor.process_series: the series row added for the book, or None
process_series(series_info) ==
    IF series_info # NoDict
    THEN LET series_title == clean_text(series_info.title)
             index_str    == series_info.index
         IN  IF series_title # <<>>
             THEN [ser |-> series_title,
                   ser_no |-> IF isdigit(index_str) THEN int(index_str) ELSE 0]
             ELSE NoDict
    ELSE NoDict

\* A metadata parser is constructed by FB2Sax
FacadeInit == Init /\ ~read_cover

SeriesChildren ==
    [parent \in Elements |->
        CASE parent = "#document"   -> {"description"}
          [] parent = "description" -> {"title-info"}
          [] parent = "title-info"  -> {"sequence"}
          [] parent = "sequence"    -> {"sequence"}
          [] OTHER                  -> {}]

\* BookProcessor.process_book calls process_series on the built FB2Sax
sax_process_series ==
    /\ sax.state = "built"
    /\ sax.series_rows = <<>>
    /\ sax' = [sax EXCEPT !.series_rows = Append(@, process_series(sax.series_info))]
    /\ UNCHANGED <<read_cover, engine, pc, nevents, nparses, stack, unit, ret, doc,
                   first_run, at_author_open, target_set, fed_payload, fed_value,
                   glue, threads>>

NextSeries ==
    \/ sax_construct
    \/ sax_feed_start(SeriesChildren, MaxSeriesEvents)
    \/ sax_feed_end(MaxSeriesEvents)
    \/ sax_built
    \/ sax_failed
    \/ sax_process_series

SpecSeries == FacadeInit /\ [][NextSeries]_vars

\* The event doc[i] is the start-tag of a sequence element of the description
\* section: no description end-tag precedes it
is_sequence(i) ==
    /\ doc[i].kind = "start"
    /\ doc[i].local = "sequence"
    /\ \A j \in 1..(i - 1) :
          ~(doc[j].kind = "end" /\ normalize_tag_name(doc[j].name) = DESCRIPTION_TAG)

has_sequence == \E i \in 1..Len(doc) : is_sequence(i)

\* The normalized attributes of the first sequence element of the description
first_sequence ==
    LET i == CHOOSE i \in 1..Len(doc) :
                 is_sequence(i) /\ \A j \in 1..(i - 1) : ~is_sequence(j)
    IN  normalize_attrs(doc[i].attrs)

-----------------------------------------------------------------------------
(* The summary of documents with titles, authors and genres *)

MaxSummaryAuthors == 2

StartEv(local) == [kind |-> "start", name |-> <<local>>, attrs |-> <<>>, local |-> local]

EndEv(local) == [kind |-> "end", name |-> <<local>>]

DataEv(chunk) == [kind |-> "data", chunk |-> chunk]

\* The events of an element without children holding the given text chunks
Leaf(local, chunks) ==
    <<StartEv(local)>> \o [i \in 1..Len(chunks) |-> DataEv(chunks[i])] \o <<EndEv(local)>>

\* The events of an element around the events of its content
Element(local, content) == <<StartEv(local)>> \o content \o <<EndEv(local)>>

Sample == <<"S", "a", "m", "p", "l", "e">>

\* The book-title elements of a document: none, the one of the scenario, or
\* two of them, the first delivered in three chunks
TitleOptions ==
    {<<>>,
     Leaf("book-title", <<Sample>>),
     Leaf("book-title", << <<"\n", " ", "S", "a", "m">>, <<"p", "l", "e">>, <<"\n">> >>)
        \o Leaf("book-title", << <<"B">> >>)}

AuthorKinds == {"both", "last", "first"}

AuthorEvents(kind) ==
    CASE kind = "both"  -> Element("author",
                               Leaf("first-name", << <<"A", "n", "n">> >>)
                                  \o Leaf("last-name", << <<"L", "e", "e">> >>))
      [] kind = "last"  -> Element("author", Leaf("last-name", << <<"R", "a", "y">> >>))
      [] kind = "first" -> Element("author", Leaf("first-name", << <<"B", "o", "b">> >>))

RECURSIVE AuthorsEvents(_)
AuthorsEvents(kinds) ==
    IF kinds = <<>> THEN <<>>
    ELSE AuthorEvents(Head(kinds)) \o AuthorsEvents(Tail(kinds))

GenreOptions ==
    {<<>>,
     Leaf("genre", << <<"p", "r", "o", "s", "e">> >>),
     Leaf("genre", << <<"p", "r", "o", "s", "e">> >>)
        \o Leaf("genre", << <<" ", "X", "Y", "\n">> >>)}

\* The source document: a title-info section, inside a description or alone
SummaryDoc(described, titles, kinds, genres) ==
    LET title_info == Element("title-info", titles \o AuthorsEvents(kinds) \o genres)
    IN  IF described THEN Element("description", title_info) ELSE title_info

AuthorLists == UNION {[1..n -> AuthorKinds] : n \in 0..MaxSummaryAuthors}

SummaryDocs ==
    {SummaryDoc(described, titles, kinds, genres) :
        described \in BOOLEAN, titles \in TitleOptions,
        kinds \in AuthorLists, genres \in GenreOptions}

\* FB2Sax is about to be constructed on a source file holding the document
InitOn(source) ==
    /\ read_cover = FALSE
    /\ tag_handlers = FB2Parser_tag_handlers(read_cover)
    /\ processing_description = TRUE
    /\ parse_error = 0
    /\ parse_error_msg = ""
    /\ in_body = FALSE
    /\ body_chunks = <<>>
    /\ pc = "constructed"
    /\ nevents = 0
    /\ nparses = 0
    /\ stack = <<>>
    /\ unit = "none"
    /\ ret = FALSE
    /\ doc = source
    /\ first_run = <<>>
    /\ at_author_open = <<0, 0>>
    /\ target_set = FALSE
    /\ fed_payload = <<>>
    /\ fed_value = <<>>
    /\ sax = NoSax
    /\ glue = NoGlue
    /\ threads = NoThreads

\* The tokenizer delivers to the metadata parser the next event of the source
sax_read_event ==
    /\ sax.state = "parsing"
    /\ nevents < Len(doc)
    /\ deliver(doc[nevents + 1])
    /\ UNCHANGED hist

\* The source is read to its end and the summary is built
sax_read_end ==
    /\ nevents = Len(doc)
    /\ sax_built

SummaryInit == \E source \in SummaryDocs : InitOn(source)

NextSummary ==
    \/ sax_construct
    \/ sax_read_event
    \/ sax_read_end
    \/ sax_failed

SpecSummary == SummaryInit /\ [][NextSummary]_vars

\* The title-info section of the scenario
ScenarioTitleInfo == <<Leaf("book-title", <<Sample>>), <<"both">>,
                       Leaf("genre", << <<"p", "r", "o", "s", "e">> >>)>>

ScenarioAsStated ==
    SummaryDoc(FALSE, ScenarioTitleInfo[1], ScenarioTitleInfo[2], ScenarioTitleInfo[3])

ScenarioDescribed ==
    SummaryDoc(TRUE, ScenarioTitleInfo[1], ScenarioTitleInfo[2], ScenarioTitleInfo[3])

AnnLee == [name    |-> <<"A", "n", "n", " ", "L", "e", "e">>,
           sortkey |-> <<"L", "e", "e">>]

\* What the summary of a described document is to hold, read off the document
ExpectedTitle(titles) == IF titles = <<>> THEN None ELSE Sample

ExpectedAuthor(kind) ==
    CASE kind = "both"  -> AnnLee
      [] kind = "last"  -> [name |-> <<"R", "a", "y">>, sortkey |-> <<"R", "a", "y">>]
      [] kind = "first" -> [name |-> <<"B", "o", "b">>, sortkey |-> <<>>]

ExpectedTags(genres) ==
    CASE genres = <<>>    -> <<>>
      [] Len(genres) = 3  -> << <<"p", "r", "o", "s", "e">> >>
      [] OTHER            -> << <<"p", "r", "o", "s", "e">>, <<"x", "y">> >>

\* C17 as stated: the metadata parse of the title-info section alone yields
\* title 'Sample', the one author pair ('Ann','Lee') and tags ['prose'].
C17_AsStated ==
    (sax.state = "built" /\ doc = ScenarioAsStated)
        => /\ sax.title = Sample
           /\ sax.authors = <<AnnLee>>
           /\ sax.tags = << <<"p", "r", "o", "s", "e">> >>

\* C17: the metadata parse of the scenario's title-info section inside a
\* description yields title 'Sample', the one author pair ('Ann','Lee') and
\* tags ['prose']; outside a description the section yields no title, no
\* author and no tag.  In general the title is the first collected book-title,
\* the authors pair the collected given and family names by index in document
\* order, and the tags are all collected genres in document order.
C17_Summary ==
    sax.state = "built" =>
        LET hs     == sax.parser.tag_handlers
            firsts == hs["author_first"].values
            lasts  == hs["author_last"].values
            genres == hs["genre"].values
        IN  /\ doc = ScenarioDescribed
                => /\ sax.title = Sample
                   /\ sax.authors = <<AnnLee>>
                   /\ sax.tags = << <<"p", "r", "o", "s", "e">> >>
            /\ \A described \in BOOLEAN, titles \in TitleOptions,
                  kinds \in AuthorLists, options \in GenreOptions :
                    doc = SummaryDoc(described, titles, kinds, options)
                        => IF described
                           THEN /\ sax.title = ExpectedTitle(titles)
                                /\ sax.authors = [i \in 1..Len(kinds) |-> ExpectedAuthor(kinds[i])]
                                /\ sax.tags = ExpectedTags(options)
                           ELSE /\ sax.title = None
                                /\ sax.authors = <<>>
                                /\ sax.tags = <<>>
            /\ IF hs["book_title"].values = <<>>
               THEN sax.title = None
               ELSE sax.title = strip(hs["book_title"].values[1], strip_symbols)
            /\ Len(sax.authors) = Len(lasts)
            /\ \A i \in 1..Len(lasts) :
                  /\ sax.authors[i].sortkey = strip(lasts[i], strip_symbols)
                  /\ i <= Len(firsts)
                        => sax.authors[i].name =
                              strip(strip(firsts[i], strip_symbols) \o <<" ">>
                                       \o strip(lasts[i], strip_symbols), Whitespace)
            /\ Len(sax.tags) = Len(genres)
            /\ \A i \in 1..Len(genres) :
                  sax.tags[i] = strip(lower(genres[i]), strip_symbols)

\* The summary of a described document with two book-titles, a family-name
\* only author before the scenario's author, and two genres
C17_Witness ==
    /\ sax.state = "built"
    /\ Len(sax.parser.tag_handlers["book_title"].values) = 2
    /\ sax.title = Sample
    /\ sax.authors = <<ExpectedAuthor("last"), AnnLee>>
    /\ Len(sax.tags) = 2

-----------------------------------------------------------------------------
(* Truncated input: the source ends at an arbitrary event of a document *)

\* The source holds the first n events of one of the documents
TruncatedInit ==
    \E source \in SummaryDocs : \E n \in 0..Len(source) :
        InitOn(SubSeq(source, 1, n))

SpecTruncated == TruncatedInit /\ [][NextSummary]_vars

\* The trimmed texts of the elements with the given local name that are closed
\* within the events, in document order
RECURSIVE ClosedTexts(_, _, _, _, _)
ClosedTexts(events, local, is_open, text, closed) ==
    IF events = <<>> THEN closed
    ELSE LET ev == Head(events)
         IN  CASE ev.kind = "start" ->
                    ClosedTexts(Tail(events), local, ev.local = local, <<>>, closed)
               [] ev.kind = "data" ->
                    ClosedTexts(Tail(events), local, is_open,
                                IF is_open THEN text \o ev.chunk ELSE text, closed)
               [] ev.kind = "end" ->
                    ClosedTexts(Tail(events), local, FALSE, <<>>,
                                IF is_open /\ ev.name = <<local>>
                                THEN Append(closed, strip(text, Whitespace))
                                ELSE closed)

\* The events delivered so far begin a description section
in_description == nevents > 0 /\ doc[1] = StartEv("description")

\* The values a matcher is to hold once the given events are processed
closed_so_far(local) ==
    IF in_description
    THEN ClosedTexts(SubSeq(doc, 1, nevents), local, FALSE, <<>>, <<>>)
    ELSE <<>>

without_placeholders(values) == SelectSeq(values, LAMBDA v : v # <<" ">>)

\* An element with text is open where the source ends
cut_in_open_element ==
    /\ nevents = Len(doc)
    /\ nevents > 0
    /\ doc[nevents].kind = "data"
    /\ in_description

\* C18: wherever the event stream ends, the collected values of every matcher
\* are the texts of the elements closed before the cut, in document order (the
\* text of an element still open is not among them); end-of-document changes
\* no field of the parse session or of a matcher; and the error flag is set
\* only by a fatal error of the tokenizer.
C18_TruncatedInput ==
    /\ [](sax.state \in {"parsing", "built"} =>
            /\ tag_handlers["book_title"].values = closed_so_far("book-title")
            /\ tag_handlers["genre"].values = closed_so_far("genre")
            /\ without_placeholders(tag_handlers["author_first"].values)
                  = closed_so_far("first-name")
            /\ without_placeholders(tag_handlers["author_last"].values)
                  = closed_so_far("last-name"))
    /\ [][close => UNCHANGED <<engine, nevents>>]_vars
    /\ [][sax.state = "parsing" /\ sax'.state = "built" =>
            /\ sax'.parser.tag_handlers = tag_handlers
            /\ parse_error' = 0]_vars
    /\ [][parse_error' = 1 =>
            \/ parse_error = 1
            \/ \E msg \in ErrorMessages : parse_failed(msg)]_vars

\* The source ends inside the second book-title, after the first was closed
\* with its text delivered in three chunks: the summary is built from the
\* first alone
C18_Witness ==
    /\ sax.state = "built"
    /\ cut_in_open_element
    /\ sax.parser.tag_handlers["book_title"].values = <<Sample>>
    /\ sax.parser.tag_handlers["book_title"].current_value = <<"B">>
    /\ parse_error = 0

-----------------------------------------------------------------------------
(* FB2Sax.extract_cover_memory: the cover pass over the source of a Facade *)

MaxExtracts == 2

MaxBinaries == 2

B64Alphabet ==
    <<"A", "B", "C", "D", "E", "F", "G", "H", "I", "J", "K", "L", "M",
      "N", "O", "P", "Q", "R", "S", "T", "U", "V", "W", "X", "Y", "Z",
      "a", "b", "c", "d", "e", "f", "g", "h", "i", "j", "k", "l", "m",
      "n", "o", "p", "q", "r", "s", "t", "u", "v", "w", "x", "y", "z",
      "0", "1", "2", "3", "4", "5", "6", "7", "8", "9", "+", "/">>

is_b64(c) == \E i \in 1..Len(B64Alphabet) : B64Alphabet[i] = c

b64_value(c) == (CHOOSE i \in 1..Len(B64Alphabet) : B64Alphabet[i] = c) - 1

\* The number of padding characters at the end of the data, characters that
\* are neither of the alphabet nor padding set aside
RECURSIVE trailing_pads(_)
trailing_pads(text) ==
    IF text = <<>> THEN 0
    ELSE LET c == text[Len(text)]
             rest == SubSeq(text, 1, Len(text) - 1)
         IN  IF c = "=" THEN 1 + trailing_pads(rest)
             ELSE IF is_b64(c) THEN 0
             ELSE trailing_pads(rest)

\* The bytes encoded by a sequence of 6-bit values
RECURSIVE b64_bytes(_)
b64_bytes(values) ==
    CASE Len(values) >= 4 ->
            LET n == values[1] * 262144 + values[2] * 4096 + values[3] * 64 + values[4]
            IN  <<n \div 65536, (n \div 256) % 256, n % 256>>
                    \o b64_bytes(SubSeq(values, 5, Len(values)))
      [] Len(values) = 3 ->
            LET n == values[1] * 1024 + values[2] * 16 + values[3] \div 4
            IN  <<n \div 256, n % 256>>
      [] Len(values) = 2 -> <<values[1] * 4 + values[2] \div 16>>
      [] OTHER -> <<>>

\* base64.b64decode(data): characters outside the alphabet are discarded; the
\* decoder raises binascii.Error unless the data characters come in groups of
\* four, the last group completed by padding
b64decode(text) ==
    LET chars  == SelectSeq(text, is_b64)
        values == [i \in 1..Len(chars) |-> b64_value(chars[i])]
        rest   == Len(chars) % 4
        pads   == trailing_pads(text)
        valid  == \/ rest = 0
                  \/ rest = 2 /\ pads >= 2
                  \/ rest = 3 /\ pads >= 1
    IN  IF valid
        THEN [raised |-> FALSE, value |-> [bytes |-> b64_bytes(values)]]
        ELSE [raised |-> TRUE, value |-> "binascii.Error"]

\* `return None`
NoCover == [raised |-> FALSE, value |-> NoDict]

\* FB2Sax.extract_cover_memory, lines 346-352: what the call returns once the
\* cover parser has parsed; nothing is raised
extract_cover_memory(hs) ==
    LET payload == cover_data(cover_of(hs))
    IN  IF payload # <<>>
        THEN IF b64decode(payload).raised THEN NoCover ELSE b64decode(payload)
        ELSE NoCover

\* As file_seek, but the read position stays where it is
file_seek_ignored(file_pos, offset) == file_pos

\* file.seek(offset, 0): the new read position
file_seek(file_pos, offset) == offset

\* file.read(): the content from the read position to the end
file_read(source, file_pos) == SubSeq(source, file_pos + 1, Len(source))

\* The coverpage of a document: none, an image that refers to the binary
\* object C, or an image whose reference lacks the marker
CoverPages ==
    {<<>>,
     Element("coverpage",
         <<[kind |-> "start", name |-> <<"image">>, local |-> "image",
            attrs |-> << <<<<"{", "xlink", "}", "href">>, <<"#", "C">>>> >>],
           EndEv("image")>>),
     Element("coverpage",
         <<[kind |-> "start", name |-> <<"image">>, local |-> "image",
            attrs |-> << <<<<"href">>, <<"c">>>> >>],
           EndEv("image")>>)}

Binary(id, chunks) ==
    <<[kind |-> "start", name |-> <<"binary">>, local |-> "binary",
       attrs |-> << <<<<"id">>, id>> >>]>>
        \o [i \in 1..Len(chunks) |-> DataEv(chunks[i])]
        \o <<EndEv("binary")>>

\* The binary objects of the documents: xxx in three chunks, data with a
\* character missing, no data, and two other objects
BinaryOptions ==
    {Binary(<<"c">>, << <<"e", "H">>, <<"\n">>, <<"h", "4", "\n">> >>),
     Binary(<<"c">>, << <<"e", "H", "h">> >>),
     Binary(<<"c">>, <<>>),
     Binary(<<"d">>, << <<"e", "H", "g", "=">> >>),
     Binary(<<"C">>, << <<"e", "X", "l", "5">> >>)}

RECURSIVE Concat(_)
Concat(parts) == IF parts = <<>> THEN <<>> ELSE Head(parts) \o Concat(Tail(parts))

BinaryLists == UNION {[1..n -> BinaryOptions] : n \in 0..MaxBinaries}

BodyOptions == {<<>>, Element("body", Leaf("p", << <<"x">> >>))}

CoverDocs ==
    {Element("description",
         Element("title-info", Leaf("book-title", <<Sample>>) \o coverpage))
        \o body \o Concat(binaries) :
        coverpage \in CoverPages, body \in BodyOptions, binaries \in BinaryLists}

CoverInit == \E source \in CoverDocs : InitOn(source)

\* FB2Sax.extract_cover_memory, lines 343-345: a cover parser is built, the
\* file is rewound and parse() resets the parser and reads the file
extract_parse ==
    /\ sax.state = "built"
    /\ Len(sax.covers) < MaxExtracts
    /\ unit = "none"
    /\ read_cover' = TRUE
    /\ tag_handlers' = FB2Parser_tag_handlers(TRUE)
    /\ processing_description' = TRUE
    /\ parse_error' = 0
    /\ parse_error_msg' = ""
    /\ in_body' = FALSE
    /\ body_chunks' = <<>>
    /\ pc' = "feeding"
    /\ nevents' = 0
    /\ nparses' = nparses + 1
    /\ stack' = <<>>
    /\ at_author_open' = <<0, 0>>
    /\ target_set' = FALSE
    /\ fed_payload' = <<>>
    /\ sax' = [sax EXCEPT !.state = "extracting",
                          !.source = file_read(doc, file_seek(sax.file_pos, 0)),
                          !.file_pos = Len(doc)]
    /\ UNCHANGED <<unit, ret, fed_value, doc, first_run, glue,
                   threads>>

\* The tokenizer, which read the whole source without a fatal error in the
\* metadata pass, delivers the next event of what was read to the cover parser
extract_read_event ==
    /\ sax.state = "extracting"
    /\ nevents < Len(sax.source)
    /\ deliver(sax.source[nevents + 1])
    /\ UNCHANGED hist

\* What was read ends
extract_read_end ==
    /\ sax.state = "extracting"
    /\ nevents = Len(sax.source)
    /\ close
    /\ UNCHANGED hist

\* FB2Parser.parse, lines 283-303: file_obj.read() raises in the cover pass
extract_read_failed ==
    \E msg \in ErrorMessages :
        /\ sax.state = "extracting"
        /\ nevents = 0
        /\ parse_failed(msg)
        /\ UNCHANGED hist

\* FB2Sax.extract_cover_memory, lines 346-352: parse() has returned and the
\* call ends; its result is recorded with the error flag of its cover parser
extract_return ==
    /\ sax.state = "extracting"
    /\ pc \in {"stopped", "eof", "error"}
    /\ sax' = [sax EXCEPT !.state = "built",
                          !.covers = Append(@,
                              [result      |-> extract_cover_memory(tag_handlers),
                               parse_error |-> parse_error])]
    /\ UNCHANGED <<read_cover, engine, pc, nevents, nparses, stack, unit, ret,
                   at_author_open, target_set, fed_payload, fed_value, doc,
                   first_run, glue, threads>>

NextCover ==
    \/ sax_construct
    \/ sax_read_event
    \/ sax_read_end
    \/ sax_failed
    \/ extract_parse
    \/ extract_read_event
    \/ extract_read_end
    \/ extract_read_failed
    \/ extract_return

SpecCover == CoverInit /\ [][NextCover]_vars

\* The fields of a Document Summary
SummaryFields ==
    {"title", "authors", "tags", "series_info", "language_code", "docdate",
     "description", "body_sample"}

\* The payload the cover parser collected cannot be decoded
undecodable == b64decode(cover_data(cover_of(tag_handlers))).raised

summary_of(facade) ==
    [field \in SummaryFields \cup {"parser"} |-> facade[field]]

\* C20: extract_cover reads the source again from offset 0, wherever the
\* metadata pass left the read position, with a parser of its own in
\* cover-scan mode; no step of a cover pass changes a field of the Document
\* Summary or of the metadata parser; and every call on the same Facade whose
\* read of the source succeeds returns the same result.
C20_IndependentCoverPass ==
    /\ [][extract_parse =>
            /\ sax.file_pos = Len(doc)
            /\ sax'.source = doc
            /\ read_cover'
            /\ tag_handlers' = FB2Parser_tag_handlers(TRUE)
            /\ nevents' = 0
            /\ sax'.parser = sax.parser]_vars
    /\ [][sax.state \in {"built", "extracting"} =>
            /\ sax'.state \in {"built", "extracting"}
            /\ summary_of(sax') = summary_of(sax)
            /\ doc' = doc]_vars
    /\ [](sax.state \in {"built", "extracting"} =>
            \A i, j \in 1..Len(sax.covers) :
               (sax.covers[i].parse_error = 0 /\ sax.covers[j].parse_error = 0)
                   => sax.covers[i].result = sax.covers[j].result)

\* Two calls on the Facade of a document whose cover is the binary object c,
\* its data delivered in three chunks, both returned the bytes xxx
C20_Witness ==
    /\ sax.state = "built"
    /\ Len(sax.covers) = 2
    /\ \A i \in 1..2 :
          sax.covers[i].result =
              [raised |-> FALSE, value |-> [bytes |-> <<120, 120, 120>>]]
    /\ sax.file_pos = Len(doc)
    /\ read_cover
    /\ ~has_cover(sax.parser.tag_handlers)

-----------------------------------------------------------------------------
(* The document date of documents with date elements *)

MaxDates == 2

\* The 'value' attribute of a date element: none, a date, or the empty string
DateValues == {None, <<"2", "0", "2", "0">>, <<>>}

\* The text chunks of a date element: none, a date in two chunks, or blanks
DateTexts == {<<>>, << <<" ", "2", "0">>, <<"1", "9", "\n">> >>, << <<" ", "\n">> >>}

\* The events of a date element, an empty child element before its text if
\* with_child
DateElement(value, chunks, with_child) ==
    <<[kind |-> "start", name |-> <<"date">>, local |-> "date",
       attrs |-> IF value = None THEN <<>> ELSE << <<<<"value">>, value>> >>]>>
        \o (IF with_child THEN Element("p", <<>>) ELSE <<>>)
        \o [i \in 1..Len(chunks) |-> DataEv(chunks[i])]
        \o <<EndEv("date")>>

DateOptions ==
    {DateElement(value, chunks, with_child) :
        value \in DateValues, chunks \in DateTexts, with_child \in BOOLEAN}

DateDoc(dates) ==
    Element("description", Element("document-info", Concat(dates)))

DateDocs ==
    {DateDoc(dates) : dates \in UNION {[1..n -> DateOptions] : n \in 0..MaxDates}}

DatesInit == \E source \in DateDocs : InitOn(source)

SpecDates == DatesInit /\ [][NextSummary]_vars

\* The document date the claim gives a document with the one date element
date_as_claimed(value, chunks) ==
    IF value # None /\ value # <<>> THEN value
    ELSE IF strip(join(chunks), Whitespace) # <<>>
         THEN strip(join(chunks), Whitespace)
         ELSE None

\* C21: the document date of a document with a single date element is the
\* 'value' attribute of that element when it is present and non-empty,
\* otherwise the trimmed text of the element, otherwise absent.
C21_DocDate ==
    sax.state = "built" =>
        \A value \in DateValues, chunks \in DateTexts, with_child \in BOOLEAN :
            doc = DateDoc(<<DateElement(value, chunks, with_child)>>)
                => sax.docdate = date_as_claimed(value, chunks)

-----------------------------------------------------------------------------
(* BookProcessor.scan_archive: the loop over the entries of an archive *)

MaxEntries == 3

\* The names an archive entry may have
EntryNames ==
    {<<"a", ".", "f", "b", "2">>, <<"B", ".", "F", "B", "2">>, <<"c", ".", "t", "x", "t">>}

Namelists == UNION {[1..n -> EntryNames] : n \in 0..MaxEntries}

\* str.endswith
endswith(text, suffix) ==
    /\ Len(suffix) <= Len(text)
    /\ SubSeq(text, Len(text) - Len(suffix) + 1, Len(text)) = suffix

\* scan_archive, line 217: f.lower().endswith(".fb2")
is_fb2(name) == endswith(lower(name), <<".", "f", "b", "2">>)

\* Where the handling of one entry may raise: opening the entry, the parse
\* (FB2Sax raises), the preparation of the metadata, the persisting of the
\* book, the rollback after a failed persist; or nowhere
Faults == {"open", "parse", "prepare", "persist", "rollback", "none"}

\* BookProcessor.process_book on an entry with the given fault: what it logs,
\* whether the book is committed, and whether an exception leaves the call
process_book(fault) ==
    LET zipped_book == FB2Sax_init(IF fault = "parse" THEN 1 ELSE 0,
                                   "XMLSyntaxError", FB2Parser_tag_handlers(FALSE),
                                   <<>>, <<>>)
    IN  CASE zipped_book.state = "failed" ->
                [raised |-> FALSE, committed |-> FALSE, log |-> <<"Failed to parse book">>]
          [] fault = "prepare" ->
                [raised |-> TRUE, committed |-> FALSE, log |-> <<>>]
          [] fault = "persist" ->
                [raised |-> FALSE, committed |-> FALSE, log |-> <<"Failed to commit book">>]
          [] fault = "rollback" ->
                [raised |-> TRUE, committed |-> FALSE, log |-> <<>>]
          [] OTHER ->
                [raised |-> FALSE, committed |-> TRUE, log |-> <<"Successfully committed book">>]

\* scan_archive, lines 218-223: the body of the loop for one .fb2 entry
scan_entry(fault) ==
    IF fault = "open"
    THEN [committed |-> FALSE, log |-> <<"Error processing file">>]
    ELSE LET done == process_book(fault)
         IN  IF done.raised
             THEN [committed |-> FALSE, log |-> <<"Error processing file">>]
             ELSE [committed |-> done.committed, log |-> done.log]

\* As next_entry, but the loop ends at an entry that was not committed
next_entry_stops(index, names, committed) ==
    IF committed THEN index + 1 ELSE Len(names)

\* scan_archive, lines 217 and 223: the loop goes on with the entry after this
\* one, whatever happened to this one
next_entry(index, names, committed) == index + 1

MaxRuns == 2

\* The archives in the directory, by base name
ArchivesOnDisk == {"a.zip", "b.zip"}

\* The orders in which a listing may give the names
Orders(names) ==
    {order \in [1..Cardinality(names) -> names] :
        \A i, j \in 1..Cardinality(names) : order[i] = order[j] => i = j}

\* As get_unscanned_archives, but the catalogue is not consulted
get_all_archives(on_disk, catalog) == Orders(on_disk)

\* get_unscanned_archives: the archives of the directory that have no row in
\* the catalogue, in the order of the listing
get_unscanned_archives(on_disk, catalog) == Orders(on_disk \ catalog)

\* process, lines 313-315: a run begins with the list of unscanned archives
process_begin ==
    \E queue \in get_unscanned_archives(
                     ArchivesOnDisk,
                     IF glue.state = "none" THEN {} ELSE glue.catalog) :
        /\ glue.state \in {"none", "idle"}
        /\ sax.state = "none"
        /\ pc = "constructed"
        /\ glue.state = "idle" => glue.runs < MaxRuns
        /\ glue' = [state    |-> "processing",
                    catalog  |-> IF glue.state = "none" THEN {} ELSE glue.catalog,
                    runs     |-> IF glue.state = "none" THEN 1 ELSE glue.runs + 1,
                    failed_in |-> IF glue.state = "none" THEN {} ELSE glue.failed_in,
                    queue    |-> queue]
        /\ UNCHANGED <<read_cover, engine, pc, nevents, nparses, stack, unit,
                       ret, at_author_open, target_set, fed_payload, fed_value,
                       doc, first_run, sax, threads>>

\* process, lines 316-317, and scan_archive, lines 213-216: scan_archive is
\* called for the next archive of the list and opens it; a file that is no
\* archive makes ZipFile raise, which ends the run
scan_archive_open ==
    \E names \in Namelists : \E opened \in BOOLEAN :
        /\ glue.state \in {"processing", "scanned"}
        /\ glue.queue # <<>>
        /\ glue' = IF opened
                   THEN [state |-> "scanning", names |-> names, index |-> 0,
                         attempted |-> <<>>, books |-> <<>>, log |-> <<>>,
                         archive |-> Head(glue.queue), queue |-> Tail(glue.queue),
                         catalog |-> glue.catalog, runs |-> glue.runs,
                         failed_in |-> glue.failed_in]
                   ELSE [state |-> "idle", catalog |-> glue.catalog,
                         runs |-> glue.runs, failed_in |-> glue.failed_in]
        /\ UNCHANGED <<read_cover, engine, pc, nevents, nparses, stack, unit,
                       ret, at_author_open, target_set, fed_payload, fed_value,
                       doc, first_run, sax, threads>>

\* process, lines 316-317: the list is exhausted and the run ends
process_end ==
    /\ glue.state \in {"processing", "scanned"}
    /\ glue.queue = <<>>
    /\ glue' = [state |-> "idle", catalog |-> glue.catalog, runs |-> glue.runs,
                failed_in |-> glue.failed_in]
    /\ UNCHANGED <<read_cover, engine, pc, nevents, nparses, stack, unit,
                   ret, at_author_open, target_set, fed_payload, fed_value,
                   doc, first_run, sax, threads>>

\* scan_archive, lines 217-223: one turn of the loop; an entry that is no
\* .fb2 file is passed over
scan_archive_entry ==
    \E fault \in Faults :
        /\ glue.state = "scanning"
        /\ glue.index < Len(glue.names)
        /\ LET name == glue.names[glue.index + 1]
               done == scan_entry(fault)
           IN  IF is_fb2(name)
               THEN glue' = [glue EXCEPT
                        !.index = next_entry(glue.index, glue.names, done.committed),
                        !.attempted = Append(@, name),
                        !.books = IF done.committed THEN Append(@, name) ELSE @,
                        !.log = @ \o done.log]
               ELSE glue' = [glue EXCEPT !.index = @ + 1]
        /\ UNCHANGED <<read_cover, engine, pc, nevents, nparses, stack, unit,
                       ret, at_author_open, target_set, fed_payload, fed_value,
                       doc, first_run, sax, threads>>

\* scan_archive, lines 225-230: the loop is over and the archive is marked as
\* scanned, unless the commit of the mark fails; failed_in keeps the archives
\* marked although a book of theirs failed
scan_archive_close ==
    \E committed \in BOOLEAN :
        /\ glue.state = "scanning"
        /\ glue.index = Len(glue.names)
        /\ glue' = [glue EXCEPT
                      !.state = "scanned",
                      !.catalog = IF committed THEN @ \cup {glue.archive} ELSE @,
                      !.log = IF committed THEN @
                              ELSE Append(@, "Failed to mark archive"),
                      !.failed_in =
                          IF committed /\ Len(glue.books) < Len(glue.attempted)
                          THEN @ \cup {glue.archive} ELSE @]
        /\ UNCHANGED <<read_cover, engine, pc, nevents, nparses, stack, unit,
                       ret, at_author_open, target_set, fed_payload, fed_value,
                       doc, first_run, sax, threads>>

NextArchive ==
    \/ process_begin
    \/ scan_archive_open
    \/ scan_archive_entry
    \/ scan_archive_close
    \/ process_end

SpecArchive == FacadeInit /\ [][NextArchive]_vars

\* C22: whatever fails while one book of an archive is opened, parsed or
\* persisted, the loop goes on: at every turn the entries attempted so far are
\* the .fb2 entries among those passed, in archive order, and when the archive
\* is closed every .fb2 entry of it has been attempted.
C22_LoopContinues ==
    /\ [](glue.state \in {"scanning", "scanned"} =>
            /\ glue.index <= Len(glue.names)
            /\ glue.attempted = SelectSeq(SubSeq(glue.names, 1, glue.index), is_fb2))
    /\ [](glue.state = "scanned" =>
            glue.attempted = SelectSeq(glue.names, is_fb2))
    /\ [][glue.state = "scanning" /\ glue'.state = "scanning" =>
            glue'.index = glue.index + 1]_vars

\* The first book of the archive failed to parse, the second failed to
\* persist, the third was committed
C22_Witness ==
    /\ glue.state = "scanned"
    /\ Len(glue.attempted) = 3
    /\ glue.log = <<"Failed to parse book", "Failed to commit book",
                    "Successfully committed book">>
    /\ Len(glue.books) = 1

\* C39: an archive is recorded as scanned only once every .fb2 entry of it
\* has been attempted; the failure of books does not keep it from being
\* recorded; and an archive that is recorded is not scanned by a later run.
C39_ScannedOnce ==
    /\ [][(glue.state # "none" /\ glue'.catalog # glue.catalog) =>
            /\ glue.state = "scanning"
            /\ glue.index = Len(glue.names)
            /\ glue.attempted = SelectSeq(glue.names, is_fb2)
            /\ glue'.catalog = glue.catalog \cup {glue.archive}]_vars
    /\ [][(glue.state = "scanning" /\ glue'.state = "scanned") =>
            (glue.archive \in glue'.catalog
                <=> glue'.log = glue.log)]_vars
    /\ [][(glue.state # "scanning" /\ glue'.state = "scanning") =>
            /\ glue'.archive \notin glue.catalog
            /\ glue'.catalog = glue.catalog]_vars
    /\ [](glue.state \in {"processing", "scanning", "scanned"} =>
            \A i \in 1..Len(glue.queue) : glue.queue[i] \notin glue.catalog)

\* The first run recorded a.zip although a book of it failed, and did not
\* record b.zip; the second run scans b.zip only
C39_Witness ==
    /\ glue.state = "scanning"
    /\ glue.runs = 2
    /\ glue.archive = "b.zip"
    /\ glue.queue = <<>>
    /\ glue.catalog = {"a.zip"}
    /\ glue.failed_in = {"a.zip"}

-----------------------------------------------------------------------------
(* The end of the description section and what follows it *)

\* C23: when the end-tag of the description section is processed in cover-scan
\* mode and found is not set, the parse terminates if no cover target was ever
\* set and otherwise leaves collecting_description and continues; in metadata
\* mode the end-tag always leaves collecting_description; and
\* collecting_description, once false, stays false within the parse.
C23_DescriptionEnd ==
    /\ [][EndOf(DESCRIPTION_TAG) =>
            IF read_cover
            THEN ~cover_of(tag_handlers').is_found =>
                    IF ~target_set
                    THEN pc' = "stopped"
                    ELSE pc' = "feeding" /\ ~processing_description'
            ELSE pc' = "feeding" /\ ~processing_description']_vars
    /\ [][(pc = "feeding" /\ ~processing_description) =>
            ~processing_description']_vars

MaxTrailing == 2

\* The authors of the description: none, one with both names, or one with two
\* given names and no family name
DescribedAuthors ==
    {<<>>,
     AuthorEvents("both"),
     Element("author", Leaf("first-name", << <<"A">> >>) \o Leaf("first-name", << <<"B">> >>))}

\* The elements that may follow the description section
TrailingOptions ==
    {Element("author", <<>>),
     Element("description", Element("title-info",
         Leaf("genre", << <<"y">> >>) \o AuthorEvents("last"))),
     Element("body", Leaf("p", << <<"x">> >>)),
     Binary(<<"c">>, << <<"e", "H">>, <<"\n">>, <<"h", "4">> >>),
     Binary(<<"d">>, << <<"e", "H", "h", "4">> >>)}

TrailingLists == UNION {[1..n -> TrailingOptions] : n \in 0..MaxTrailing}

\* Documents with elements after the description section
TrailingDocs ==
    {Element("description",
         Element("title-info", authors \o coverpage
                                  \o Leaf("genre", << <<"p", "r", "o", "s", "e">> >>)))
        \o Concat(trailing) :
        authors \in DescribedAuthors, coverpage \in CoverPages,
        trailing \in TrailingLists}

TrailingInit == \E source \in TrailingDocs : InitOn(source)

SpecTrailing == TrailingInit /\ [][NextCover]_vars

\* The step is the processing of a start-tag, an end-tag or character data
is_event == pc = "feeding" /\ nevents' = nevents + 1

\* What a field matcher holds besides the text it is collecting
matched_so_far(h) ==
    [current_index |-> h.current_index, attributes_list |-> h.attributes_list,
     values |-> h.values]

\* The event processed by the step of a parse of the source
event_now == IF sax.state = "extracting" THEN sax.source[nevents + 1] ELSE doc[nevents + 1]

\* The cover matcher after it has received the event
cover_after(ev) ==
    CASE ev.kind = "start" ->
            CoverHandler_open_tag(cover, tags_of("cover_image"),
                normalize_tag_name(ev.name), normalize_attrs(ev.attrs)).self
      [] ev.kind = "end" ->
            CoverHandler_close_tag(cover, tags_of("cover_image"),
                normalize_tag_name(ev.name))
      [] ev.kind = "data" -> add_data(cover, ev.chunk)

\* C24: once the description section has closed, no start-tag, end-tag or
\* character-data event changes the cursor, the attribute history or the
\* collected values of a field matcher, while in cover-scan mode the cover
\* matcher still receives every open, close and add_data.
C24_AfterDescription ==
    /\ [][(is_event /\ ~processing_description) =>
            \A n \in DOMAIN tag_handlers \ {"cover_image"} :
               matched_so_far(tag_handlers'[n]) = matched_so_far(tag_handlers[n])]_vars
    /\ [][(is_event /\ ~processing_description /\ read_cover) =>
            cover_of(tag_handlers') = cover_after(event_now)]_vars

-----------------------------------------------------------------------------
(* The body sample of documents with body sections *)

MaxBodyParts == 2

\* The parts of a document: text outside a body, a body, a body reported in
\* capitals, a body with a body inside and text after it, a body inside the
\* description, an empty description, and the cover reference with its object
BodyParts ==
    {Leaf("p", << <<"o">> >>),
     Element("body", Leaf("p", << <<" ", "x">>, <<"\n">> >>)),
     <<[kind |-> "start", name |-> <<"BODY">>, attrs |-> <<>>, local |-> "body"],
       DataEv(<<"u">>), [kind |-> "end", name |-> <<"BODY">>]>>,
     Element("body", Leaf("p", << <<"y">> >>)
                        \o Element("body", Leaf("p", << <<"z", " ">> >>))
                        \o Leaf("p", << <<"w">> >>)),
     Element("description", Element("body", <<DataEv(<<"d">>)>>)),
     Element("description", Element("title-info", Leaf("genre", << <<"g">> >>))),
     Element("description", Element("title-info",
         Element("coverpage",
             <<[kind |-> "start", name |-> <<"image">>, local |-> "image",
                attrs |-> << <<<<"href">>, <<"#", "c">>>> >>],
               EndEv("image")>>)))}

BodyDocs == {Concat(parts) : parts \in UNION {[1..n -> BodyParts] : n \in 0..MaxBodyParts}}

BodiesInit == \E source \in BodyDocs : InitOn(source)

SpecBodies == BodiesInit /\ [][NextCover]_vars

\* The names under which the tokenizer reports a body element
BodyNames == {<<"body">>, <<"BODY">>}

\* The character-data chunks of the events that lie after a body start-tag and
\* before the next body end-tag, in event order
RECURSIVE tracked_chunks(_, _, _)
tracked_chunks(events, tracking, chunks) ==
    IF events = <<>> THEN chunks
    ELSE LET ev == Head(events)
         IN  CASE ev.kind = "data" ->
                    tracked_chunks(Tail(events), tracking,
                                   IF tracking THEN Append(chunks, ev.chunk) ELSE chunks)
               [] ev.kind = "start" ->
                    tracked_chunks(Tail(events), tracking \/ ev.name \in BodyNames,
                                   chunks)
               [] ev.kind = "end" ->
                    tracked_chunks(Tail(events), tracking /\ ev.name \notin BodyNames,
                                   chunks)

\* The events the running parse has processed
processed ==
    IF sax.state = "extracting"
    THEN SubSeq(sax.source, 1, nevents)
    ELSE SubSeq(doc, 1, nevents)

\* C25: at every point of a parse, in either mode and whatever the description
\* state, the body buffer holds exactly the character-data chunks delivered
\* after a body start-tag and before the next body end-tag, in event order;
\* the body sample of the summary is their concatenation, trimmed.
C25_BodySample ==
    /\ sax.state \in {"parsing", "extracting"} =>
          body_chunks = tracked_chunks(processed, FALSE, <<>>)
    /\ sax.state \in {"built", "extracting"} =>
          sax.body_sample = strip(join(tracked_chunks(doc, FALSE, <<>>)), Whitespace)

\* The summary of a document with a body inside the description, text outside
\* a body, and a body with a body inside: the text after the inner body is
\* not in the sample
C25_Witness ==
    /\ sax.state = "built"
    /\ ~processing_description
    /\ doc[Len(doc) - 2] = DataEv(<<"w">>)
    /\ sax.body_sample = <<"d", "y", "z">>
    /\ ~in_body

-----------------------------------------------------------------------------
(* An element nested in the tracked element and named like it *)

\* The name of the empty element nested first in the title-info section, or
\* "" for no such element
ExtraNames == {"", "title-info", "author", "p", "genre"}

\* The elements that follow it in the title-info section
Followers ==
    {Leaf("genre", << <<"p", "r", "o", "s", "e">> >>),
     Leaf("book-title", <<Sample>>) \o Leaf("genre", << <<"x">> >>),
     AuthorEvents("both") \o Leaf("genre", << <<"p", "r", "o", "s", "e">> >>)}

NestedExtraDoc(extra, followers) ==
    Element("description",
        Element("title-info",
            (IF extra = "" THEN <<>> ELSE Element(extra, <<>>)) \o followers))

NestedExtraDocs ==
    {NestedExtraDoc(extra, followers) : extra \in ExtraNames, followers \in Followers}

NestedExtraInit == \E source \in NestedExtraDocs : InitOn(source)

SpecNestedExtra == NestedExtraInit /\ [][NextSummary]_vars

\* All that the field matchers collected
collected == [n \in FieldHandlers |-> tag_handlers[n].values]

\* C26: an empty element nested in the title-info section and named
\* title-info retreats, on its close, the cursor of the matchers standing on
\* that segment while the section is still open; the elements that follow it
\* in the section lie on the matchers' paths by direct nesting, and none of
\* them is matched: no text of theirs is collected.  With no such element, or
\* with one of another name, their text is collected.
C26_Desynchronized ==
    \A extra \in ExtraNames, followers \in Followers :
        doc = NestedExtraDoc(extra, followers) =>
            /\ (nevents = 4 /\ extra # "" /\ sax.state = "parsing") =>
                  /\ stack = <<"description", "title-info">>
                  /\ tag_handlers["genre"].current_index =
                        IF extra = "title-info" THEN 0 ELSE 1
            /\ (sax.state = "built" /\ extra = "title-info") =>
                  \A n \in FieldHandlers :
                     /\ collected[n] = <<>>
                     /\ tag_handlers[n].attributes_list = <<>>
            /\ (sax.state = "built" /\ extra # "title-info") =>
                  /\ collected["genre"] # <<>>
                  /\ sax.tags # <<>>

\* The summary of <description><title-info><title-info/><book-title>Sample
\* </book-title><genre>x</genre></title-info></description> has no title and
\* no tag
C26_Witness ==
    /\ sax.state = "built"
    /\ doc = NestedExtraDoc("title-info",
                 Leaf("book-title", <<Sample>>) \o Leaf("genre", << <<"x">> >>))
    /\ sax.title = None
    /\ sax.tags = <<>>
    /\ tag_handlers["book_title"].current_index = -1

-----------------------------------------------------------------------------
(* Threads that call extract_cover_memory on the same FB2Sax object *)

MaxThreads == 2

\* A parser before the first event of a parse
parser_reset(rc) ==
    [hs |-> FB2Parser_tag_handlers(rc), pd |-> TRUE, stopped |-> FALSE]

\* FB2Parser.start, end and data: the parser after one more event
parser_after(parser, rc, ev) ==
    LET local_name == normalize_tag_name(ev.name)
    IN  CASE ev.kind = "start" ->
                [parser EXCEPT !.hs = start_handlers(parser.hs, rc, parser.pd, local_name,
                                                     normalize_attrs(ev.attrs))]
          [] ev.kind = "end" ->
                LET closed == end_closed(parser.hs, rc, parser.pd, local_name)
                    paired == author_reconcile(closed, local_name)
                IN  IF stops_cover_found(closed, rc)
                    THEN [parser EXCEPT !.hs = closed, !.stopped = TRUE]
                    ELSE IF stops_no_cover(paired, rc, local_name)
                    THEN [parser EXCEPT !.hs = paired, !.stopped = TRUE]
                    ELSE [parser EXCEPT !.hs = paired,
                                        !.pd = IF local_name = DESCRIPTION_TAG
                                               THEN FALSE ELSE parser.pd]
          [] ev.kind = "data" ->
                [parser EXCEPT !.hs = data_handlers(parser.hs, rc, parser.pd, ev.chunk)]

\* FB2Parser.parse on a source that the tokenizer reads without a fatal error:
\* the parser when the feed ends or stops
RECURSIVE parser_fed(_, _, _)
parser_fed(parser, rc, events) ==
    IF events = <<>> \/ parser.stopped THEN parser
    ELSE parser_fed(parser_after(parser, rc, Head(events)), rc, Tail(events))

\* extract_cover_memory, line 343: the threads enter the method
threads_enter ==
    /\ sax.state = "built"
    /\ threads = NoThreads
    /\ threads' = [t \in 1..MaxThreads |->
                      [at |-> "seek", source |-> <<>>, result |-> NoCover]]
    /\ UNCHANGED <<read_cover, engine, pc, nevents, nparses, stack, unit, ret,
                   at_author_open, target_set, fed_payload, fed_value, doc,
                   first_run, sax, glue>>

\* extract_cover_memory, line 344: self.file.seek(0, 0) on the file the
\* threads share
thread_seek(t) ==
    /\ threads # NoThreads
    /\ threads[t].at = "seek"
    /\ sax' = [sax EXCEPT !.file_pos = file_seek(sax.file_pos, 0)]
    /\ threads' = [threads EXCEPT ![t].at = "read"]
    /\ UNCHANGED <<read_cover, engine, pc, nevents, nparses, stack, unit, ret,
                   at_author_open, target_set, fed_payload, fed_value, doc,
                   first_run, glue>>

\* FB2Parser.parse, line 285: file_obj.read() from the read position of the
\* shared file to its end
thread_read(t) ==
    /\ threads # NoThreads
    /\ threads[t].at = "read"
    /\ threads' = [threads EXCEPT ![t].at = "feed",
                                  ![t].source = file_read(doc, sax.file_pos)]
    /\ sax' = [sax EXCEPT !.file_pos = Len(doc)]
    /\ UNCHANGED <<read_cover, engine, pc, nevents, nparses, stack, unit, ret,
                   at_author_open, target_set, fed_payload, fed_value, doc,
                   first_run, glue>>

\* FB2Parser.parse, lines 288-289, and extract_cover_memory, lines 346-352:
\* the thread's own cover parser is fed what the thread read, and the call
\* returns
thread_feed(t) ==
    /\ threads # NoThreads
    /\ threads[t].at = "feed"
    /\ threads' = [threads EXCEPT
                      ![t].at = "done",
                      ![t].result = extract_cover_memory(
                          parser_fed(parser_reset(TRUE), TRUE, threads[t].source).hs)]
    /\ UNCHANGED <<read_cover, engine, pc, nevents, nparses, stack, unit, ret,
                   at_author_open, target_set, fed_payload, fed_value, doc,
                   first_run, sax, glue>>

NextThreads ==
    \/ sax_construct
    \/ sax_read_event
    \/ sax_read_end
    \/ sax_failed
    \/ threads_enter
    \/ \E t \in 1..MaxThreads : thread_seek(t)
    \/ \E t \in 1..MaxThreads : thread_read(t)
    \/ \E t \in 1..MaxThreads : thread_feed(t)

SpecThreads == CoverInit /\ [][NextThreads]_vars

\* C28: whatever the interleaving of the seek and read steps of the cover
\* extractions that run at the same time on one Facade, each of them reads
\* the complete document, and so returns what an extraction run alone returns.
C28_CompleteReads ==
    threads # NoThreads =>
        \A t \in 1..MaxThreads :
            /\ threads[t].at \in {"feed", "done"} => threads[t].source = doc
            /\ threads[t].at = "done" =>
                  threads[t].result = extract_cover_memory(
                      parser_fed(parser_reset(TRUE), TRUE, doc).hs)

-----------------------------------------------------------------------------
(* How often an event reaches the cover-reference matcher *)

\* C29: in cover-scan mode, while the description is collected, an event is
\* delivered to the cover-reference matcher once: a step adds at most one
\* entry to its attribute history and at most one collected value.
C29_DeliveredOnce ==
    [][ (read_cover /\ pc = "feeding" /\ processing_description) =>
          LET h  == tag_handlers["cover_name"]
              h2 == tag_handlers'["cover_name"]
          IN  /\ Len(h2.attributes_list) <= Len(h.attributes_list) + 1
              /\ Len(h2.values) <= Len(h.values) + 1 ]_vars

-----------------------------------------------------------------------------
(* Cover extraction from a source that ends early *)

\* The source of a document with a cover ends after any of its events; the
\* recovering tokenizer reports what it read and nothing more
CutCoverInit ==
    \E source \in CoverDocs : \E n \in 0..Len(source) :
        InitOn(SubSeq(source, 1, n))

SpecCutCover == CutCoverInit /\ [][NextCover]_vars

-----------------------------------------------------------------------------
(* How a parse ends *)

\* A description with or without a cover reference, then a body or none, then
\* one binary object or none; the source ends after any of its events
FinishDocs ==
    {Element("description", Element("title-info", coverpage)) \o body \o binary :
        coverpage \in CoverPages, body \in BodyOptions,
        binary \in {<<>>, Binary(<<"c">>, << <<"e", "H", "h">> >>)}}

FinishInit ==
    \E source \in FinishDocs : \E n \in 0..Len(source) :
        InitOn(SubSeq(source, 1, n))

\* extract_read_event is enabled: the cover parser is fed and an event of what
\* was read is left
extract_can_read ==
    /\ sax.state = "extracting"
    /\ pc = "feeding"
    /\ nevents < Len(sax.source)

\* The feed loop of the tokenizer, once parse() has called it, goes on: weak
\* fairness of the four steps of the loop, that of extract_read_event written
\* out with its enabling condition
feed_goes_on ==
    /\ WF_vars(sax_read_event)
    /\ WF_vars(sax_read_end)
    /\ WF_vars(extract_read_end)
    /\ ([]<>(~extract_can_read) \/ []<><<extract_read_event>>_vars)

SpecFinishes == FinishInit /\ [][NextCover]_vars /\ feed_goes_on

\* What the parser at work was given to parse
reading == IF sax.state = "extracting" THEN sax.source ELSE doc

\* The step processes an end-tag after which the cover is found, or which
\* closes the description while the cover target is empty
terminating_end ==
    /\ pc = "feeding"
    /\ nevents' = nevents + 1
    /\ reading[nevents'].kind = "end"
    /\ \/ cover_of(tag_handlers').is_found
       \/ /\ normalize_tag_name(reading[nevents'].name) = DESCRIPTION_TAG
          /\ cover_of(tag_handlers').cover_name = <<>>

\* C31: a metadata parse is never stopped by a callback: it ends only when
\* every event of the source has been processed, or with the error of the
\* tokenizer; a cover-scan parse ends at the first terminating end-tag or at
\* the end of the source; and every parse that has begun ends.
C31_ParseFinishes ==
    /\ [](~read_cover => pc # "stopped")
    /\ [][(pc = "feeding" /\ pc' = "eof") => nevents = Len(reading)]_vars
    /\ [][(pc = "feeding" /\ pc' = "stopped") => (read_cover /\ terminating_end)]_vars
    /\ [][(read_cover /\ terminating_end) => pc' = "stopped"]_vars
    /\ [][pc = "stopped" => nevents' <= nevents]_vars
    /\ (pc = "feeding") ~> (pc \in {"stopped", "eof", "error"})

\* A metadata parse processed a description without a cover reference, a body
\* and a binary object to the end of the source, and the cover scan of the
\* same source stopped at the end of the description
C31_Witness ==
    /\ sax.state = "extracting"
    /\ pc = "stopped"
    /\ nevents < Len(doc)
    /\ doc[nevents] = EndEv("description")
    /\ sax.body_sample # <<>>
    /\ doc[Len(doc)] = EndEv("binary")

-----------------------------------------------------------------------------
(* What is left once a callback has stopped the parse *)

\* C32: once a callback has signalled early termination, no later event of
\* the document reaches the parser: matchers, body buffer and flags stay as
\* they are until the next parse() call, and they are what the events up to
\* the terminating end-tag made them, whatever follows it in the source.
C32_NothingAfterStop ==
    /\ [][pc = "stopped" =>
            \/ UNCHANGED <<engine, nevents>>
            \/ pc' = "feeding" /\ nparses' = nparses + 1]_vars
    /\ []((sax.state = "extracting" /\ pc = "stopped") =>
            LET fed == parser_fed(parser_reset(TRUE), TRUE,
                                  SubSeq(sax.source, 1, nevents))
            IN  /\ fed.stopped
                /\ tag_handlers = fed.hs
                /\ processing_description = fed.pd)
    /\ []((sax.state = "extracting" /\ pc \in {"stopped", "eof"}) =>
            tag_handlers = parser_fed(parser_reset(TRUE), TRUE, sax.source).hs)

\* A cover scan stopped at the end of the cover element and returned; a
\* second binary object with the same id and with data follows in the source
C32_Witness ==
    /\ sax.state = "built"
    /\ Len(sax.covers) = 1
    /\ pc = "stopped"
    /\ cover_of(tag_handlers).is_found
    /\ cover_data(cover_of(tag_handlers)) = <<"e", "H", "h">>
    /\ SubSeq(doc, nevents + 1, Len(doc)) = Binary(<<"c">>, << <<"e", "H", "h">> >>)

-----------------------------------------------------------------------------
(* Well-nested documents in which any element may hold any other *)

MaxNestedEvents == 8

NestedNames == {"description", "title-info", "genre"}

NestedChildren == [parent \in Elements |-> NestedNames]

NextNested ==
    \/ parse_call(1)
    \/ nested_feed(NestedChildren, {"genre"}, {<<"x">>}, MaxNestedEvents)
    \/ finish

SpecNested == Init /\ [][NextNested]_vars

\* C35: for every well-nested sequence of start-tag and end-tag events fed
\* from the initial state, once the last element has closed each matcher of
\* the parser has its cursor at -1 and no value in progress.
C35_BackAtStart ==
    (pc \in {"feeding", "eof"} /\ nevents > 0 /\ stack = <<>>) =>
        \A n \in DOMAIN tag_handlers :
            /\ tag_handlers[n].current_index = -1
            /\ ~tag_handlers[n].processing_value

\* The names of p occur in s in the order of p
RECURSIVE is_subsequence(_, _)
is_subsequence(p, s) ==
    IF p = <<>> THEN TRUE
    ELSE IF s = <<>> THEN FALSE
    ELSE IF Head(p) = Head(s) THEN is_subsequence(Tail(p), Tail(s))
    ELSE is_subsequence(p, Tail(s))

\* C36: for every well-nested event sequence, whenever the cursor of a matcher
\* is at an index i >= 0, elements named path[0], ..., path[i] are open and
\* nested in that order.
C36_PathIsOpen ==
    pc = "feeding" =>
        \A n \in DOMAIN tag_handlers :
            LET i == tag_handlers[n].current_index
            IN  i >= 0 => is_subsequence(SubSeq(tags_of(n), 1, i + 1), stack)

-----------------------------------------------------------------------------
(* BookProcessor.determine_language *)

\* The codes the language tag, the two detectors and the fallback may give
Languages == {"ru", "uk", "bg", "en", "unknown"}

\* BookProcessor.__init__: self.equivalent_pairs
equivalent_pairs ==
    {<<"ru", "uk">>, <<"uk", "ru">>, <<"ru", "bg">>, <<"bg", "ru">>,
     <<"bg", "mk">>, <<"mk", "bg">>}

\* As determine_language, but where the tag matches a detector the answer of
\* the first detector is taken
determine_language_first_detector(lang_from_tag, lang1, lang2, lang_openai) ==
    LET lang_final ==
            IF lang_from_tag = lang1 /\ lang1 = lang2 THEN <<lang_from_tag>>
            ELSE IF lang_from_tag \in {lang1, lang2} THEN <<lang1>>
            ELSE IF <<lang_from_tag, lang1>> \notin equivalent_pairs
                    /\ <<lang_from_tag, lang2>> \notin equivalent_pairs
            THEN IF lang_openai # "unknown" THEN <<lang_openai>> ELSE None
            ELSE IF lang1 = lang2 /\ lang1 # lang_from_tag
                    /\ <<lang_from_tag, lang1>> \notin equivalent_pairs
            THEN <<lang1>>
            ELSE None
        resolved == IF lang_final \in {None, <<"">>} THEN lang_from_tag ELSE lang_final[1]
    IN  IF resolved # "unknown" THEN resolved ELSE lang_from_tag

\* BookProcessor.determine_language, given what detect_langdetect and
\* detect_langid return for the sample and what detect_openai returns if it is
\* called
determine_language(lang_from_tag, lang1, lang2, lang_openai) ==
    LET lang_final ==
            IF lang_from_tag = lang1 /\ lang1 = lang2 THEN <<lang_from_tag>>
            ELSE IF lang_from_tag \in {lang1, lang2} THEN <<lang_from_tag>>
            ELSE IF <<lang_from_tag, lang1>> \notin equivalent_pairs
                    /\ <<lang_from_tag, lang2>> \notin equivalent_pairs
            THEN IF lang_openai # "unknown" THEN <<lang_openai>> ELSE None
            ELSE IF lang1 = lang2 /\ lang1 # lang_from_tag
                    /\ <<lang_from_tag, lang1>> \notin equivalent_pairs
            THEN <<lang1>>
            ELSE None
        resolved == IF lang_final \in {None, <<"">>} THEN lang_from_tag ELSE lang_final[1]
    IN  IF resolved # "unknown" THEN resolved ELSE lang_from_tag

\* process_book, line 258: determine_language is called for a book
determine_language_call ==
    \E lang_from_tag, lang1, lang2, lang_openai \in Languages :
        /\ glue.state \in {"none", "language"}
        /\ sax.state = "none"
        /\ pc = "constructed"
        /\ glue' = [state |-> "language", lang_from_tag |-> lang_from_tag,
                    lang1 |-> lang1, lang2 |-> lang2, lang_openai |-> lang_openai,
                    final_lang |-> determine_language(lang_from_tag, lang1, lang2,
                                                      lang_openai)]
        /\ UNCHANGED <<read_cover, engine, pc, nevents, nparses, stack, unit,
                       ret, at_author_open, target_set, fed_payload, fed_value,
                       doc, first_run, sax, threads>>

SpecLanguage == FacadeInit /\ [][determine_language_call]_vars

\* C37: when both detectors agree on a language that differs from the tag
\* language, and the tag and that language are no equivalent pair,
\* determine_language returns the language the detectors agree on.
C37_DetectorsAgree ==
    (/\ glue.state = "language"
     /\ glue.lang1 = glue.lang2
     /\ glue.lang1 # glue.lang_from_tag
     /\ <<glue.lang_from_tag, glue.lang1>> \notin equivalent_pairs)
        => glue.final_lang = glue.lang1

\* C38: determine_language returns the tag language whenever the tag agrees
\* with at least one detector, and it returns 'unknown' only if the tag
\* language is 'unknown'.
C38_TagKept ==
    glue.state = "language" =>
        /\ glue.lang_from_tag \in {glue.lang1, glue.lang2} =>
              glue.final_lang = glue.lang_from_tag
        /\ glue.final_lang = "unknown" => glue.lang_from_tag = "unknown"

\* The tag agrees with the second detector only and is returned, the first
\* detector and the fallback having no answer
C38_Witness ==
    /\ glue.state = "language"
    /\ glue.lang_from_tag = "uk"
    /\ glue.lang1 = "unknown"
    /\ glue.lang2 = "uk"
    /\ glue.lang_openai = "unknown"
    /\ glue.final_lang = "uk"

=============================================================================
